---- MODULE Spec2Model ----
(***************************************************************************)
(* Model of the opsai-document-orchestrator analysis pipeline:             *)
(*   clients/content_understanding.py  ContentUnderstandingClient.analyze  *)
(*   services/document_service.py      DocumentService                     *)
(*   repositories/table_storage.py     DocumentRepository                  *)
(* Every invocation of DocumentService.analyze_document is a process that  *)
(* advances one external call at a time (get_sas_url, POST, sleep, GET,    *)
(* upsert); the provider, the storage account and the table answer         *)
(* nondeterministically.                                                   *)
(***************************************************************************)
EXTENDS Integers, Sequences, FiniteSets, TLC

(***************************************************************************)
(* Bounds of the model.                                                    *)
(***************************************************************************)
\* number of running/notStarted answers the provider may give one invocation
MaxPolls == 2
\* number of analyze_document invocations started in one behaviour
MaxInvocations == 2
\* the wall clock takes the values 0..MaxTime
MaxTime == 1
\* pending answers per operation when two callers interleave
MaxConcurrentPolls == 1
\* categories of a configuration
MaxCategories == 2
\* direct administrative calls in a run
MaxAdminCalls == 2
\* calls of upload_document, get_result, submit_feedback, get_feedback in a run
MaxServiceCalls == 2

Procs == {"p1", "p2"}
DocIds == {"d1", "d2"}

(***************************************************************************)
(* Python / JSON values.  Every value is tagged with its type, so that the *)
(* isinstance tests and the truthiness tests of the code can be computed.  *)
(* A str is a sequence of pieces (single characters where the code looks   *)
(* inside the string), a dict is a function from its keys, a list is a     *)
(* sequence.                                                               *)
(***************************************************************************)
None == [t |-> "null"]
Str(s) == [t |-> "str", v |-> s]
Num(n) == [t |-> "num", v |-> n]
Obj(f) == [t |-> "obj", v |-> f]
Arr(s) == [t |-> "arr", v |-> s]

EmptyDict == Obj(<<>>)

IsDict(x) == x.t = "obj"
IsStr(x) == x.t = "str"

\* Python truthiness of a value: None, "", 0, {} and [] are falsy
Truthy(x) ==
    CASE x.t = "null" -> FALSE
      [] x.t = "str" -> Len(x.v) > 0
      [] x.t = "num" -> x.v # 0
      [] x.t = "obj" -> DOMAIN x.v # {}
      [] x.t = "arr" -> Len(x.v) > 0

\* dict.get(key, default)
PyGet(d, k, default) == IF k \in DOMAIN d.v THEN d.v[k] ELSE default

\* str.lower(), character by character
LowerChar(c) ==
    CASE c = "A" -> "a" [] c = "B" -> "b" [] c = "C" -> "c" [] c = "D" -> "d"
      [] c = "E" -> "e" [] c = "F" -> "f" [] c = "G" -> "g" [] c = "H" -> "h"
      [] c = "I" -> "i" [] c = "J" -> "j" [] c = "K" -> "k" [] c = "L" -> "l"
      [] c = "M" -> "m" [] c = "N" -> "n" [] c = "O" -> "o" [] c = "P" -> "p"
      [] c = "Q" -> "q" [] c = "R" -> "r" [] c = "S" -> "s" [] c = "T" -> "t"
      [] c = "U" -> "u" [] c = "V" -> "v" [] c = "W" -> "w" [] c = "X" -> "x"
      [] c = "Y" -> "y" [] c = "Z" -> "z" [] OTHER -> c

Lower(s) == [i \in DOMAIN s |-> LowerChar(s[i])]

(***************************************************************************)
(* Exceptions.                                                             *)
(***************************************************************************)
NoError == [kind |-> "none", msg |-> <<>>, at |-> ""]
ContentUnderstandingError(msg) == [kind |-> "ContentUnderstandingError", msg |-> msg]
AttributeError == [kind |-> "AttributeError", msg |-> <<"object has no attribute">>]
CollaboratorError == [kind |-> "Exception", msg |-> <<"collaborator failed">>]

\* outcome of one step of a function body
Continue == [kind |-> "continue"]
Return(v) == [kind |-> "return", value |-> v]
Raise(e) == [kind |-> "raise", err |-> e]

(***************************************************************************)
(* ContentUnderstandingClient.analyze: the classification of one poll body *)
(* (the json() of a GET that answered 200).                                *)
(***************************************************************************)
succeeded == <<"s","u","c","c","e","e","d","e","d">>
failed == <<"f","a","i","l","e","d">>
running == <<"r","u","n","n","i","n","g">>
notstarted == <<"n","o","t","s","t","a","r","t","e","d">>

\* mutant: a succeeded poll returns the whole body, not its result payload
MatchStatus_ReturnsBody(result) ==
    LET raw == PyGet(result, "status", Str(<<>>)) IN
    IF ~IsStr(raw) THEN Raise(AttributeError)
    ELSE LET status == Lower(raw.v) IN
         CASE status = succeeded -> Return(result)
           [] status = failed ->
                LET error == PyGet(result, "error", EmptyDict) IN
                IF ~IsDict(error) THEN Raise(AttributeError)
                ELSE Raise(ContentUnderstandingError(
                         <<"Analysis failed: ">>
                         \o PyGet(error, "message", Str(<<"Unknown error">>)).v))
           [] status \in {running, notstarted} -> Continue
           [] OTHER -> Raise(ContentUnderstandingError(<<"Unknown status: ">> \o status))

\* mutant: a failed poll is taken for a pending one
MatchStatus_FailedPending(result) ==
    LET raw == PyGet(result, "status", Str(<<>>)) IN
    IF ~IsStr(raw) THEN Raise(AttributeError)
    ELSE LET status == Lower(raw.v) IN
         CASE status = succeeded -> Return(PyGet(result, "result", result))
           [] status \in {running, notstarted, failed} -> Continue
           [] OTHER -> Raise(ContentUnderstandingError(<<"Unknown status: ">> \o status))

\* mutant: an unrecognized status is taken for a pending one
MatchStatus_UnknownPending(result) ==
    LET raw == PyGet(result, "status", Str(<<>>)) IN
    IF ~IsStr(raw) THEN Raise(AttributeError)
    ELSE LET status == Lower(raw.v) IN
         CASE status = succeeded -> Return(PyGet(result, "result", result))
           [] status = failed ->
                LET error == PyGet(result, "error", EmptyDict) IN
                IF ~IsDict(error) THEN Raise(AttributeError)
                ELSE Raise(ContentUnderstandingError(
                         <<"Analysis failed: ">>
                         \o PyGet(error, "message", Str(<<"Unknown error">>)).v))
           [] OTHER -> Continue

\* mutant: a failed poll is reported like an unrecognized status
MatchStatus_FailedAsUnknown(result) ==
    LET raw == PyGet(result, "status", Str(<<>>)) IN
    IF ~IsStr(raw) THEN Raise(AttributeError)
    ELSE LET status == Lower(raw.v) IN
         CASE status = succeeded -> Return(PyGet(result, "result", result))
           [] status \in {running, notstarted} -> Continue
           [] OTHER -> Raise(ContentUnderstandingError(<<"Unknown status: ">> \o status))

\* mutant: a succeeded body without a result key yields None
MatchStatus_NoFallback(result) ==
    LET raw == PyGet(result, "status", Str(<<>>)) IN
    IF ~IsStr(raw) THEN Raise(AttributeError)
    ELSE LET status == Lower(raw.v) IN
         CASE status = succeeded -> Return(PyGet(result, "result", None))
           [] status = failed ->
                LET error == PyGet(result, "error", EmptyDict) IN
                IF ~IsDict(error) THEN Raise(AttributeError)
                ELSE Raise(ContentUnderstandingError(
                         <<"Analysis failed: ">>
                         \o PyGet(error, "message", Str(<<"Unknown error">>)).v))
           [] status \in {running, notstarted} -> Continue
           [] OTHER -> Raise(ContentUnderstandingError(<<"Unknown status: ">> \o status))

\* lines 91-104: status = result.get("status", "").lower(); match status
MatchStatus(result) ==
    LET raw == PyGet(result, "status", Str(<<>>)) IN
    IF ~IsStr(raw) THEN Raise(AttributeError)
    ELSE LET status == Lower(raw.v) IN
         CASE status = succeeded -> Return(PyGet(result, "result", result))
           [] status = failed ->
                LET error == PyGet(result, "error", EmptyDict) IN
                IF ~IsDict(error) THEN Raise(AttributeError)
                ELSE Raise(ContentUnderstandingError(
                         <<"Analysis failed: ">>
                         \o PyGet(error, "message", Str(<<"Unknown error">>)).v))
           [] status \in {running, notstarted} -> Continue
           [] OTHER -> Raise(ContentUnderstandingError(<<"Unknown status: ">> \o status))

(***************************************************************************)
(* DocumentService helpers.                                                *)
(***************************************************************************)
\* segments of a URL that contain ".blob.core.windows.net"
BlobHosts == {"acct.blob.core.windows.net", "x.blob.core.windows.net.pdf"}

\* a URL is the sequence of its "/"-separated parts: split and join are
\* the passage between the string and this sequence
RECURSIVE FindHost(_, _)
FindHost(parts, i) ==
    IF i > Len(parts) THEN 0
    ELSE IF parts[i] \in BlobHosts THEN i
    ELSE FindHost(parts, i + 1)

\* mutant: the blob name is taken to be the last two parts of the URL
_extract_blob_name_LastTwo(blob_url) ==
    LET i == FindHost(blob_url, 1) IN
    IF i # 0 THEN SubSeq(blob_url, Len(blob_url) - 1, Len(blob_url)) ELSE blob_url

\* document_service.py lines 120-128
_extract_blob_name(blob_url) ==
    LET i == FindHost(blob_url, 1) IN
    IF i # 0 THEN SubSeq(blob_url, i + 2, Len(blob_url)) ELSE blob_url

\* mutant: the category of highest confidence is taken
ScanContents_HighestConfidence(contents, i) ==
    LET withcat == {k \in i..Len(contents) :
                      Truthy(PyGet(contents[k], "category", None))}
        conf(k) == PyGet(contents[k].v["category"], "confidence", Num(0)).v
    IN
    IF withcat = {} THEN Return(<<None, None>>)
    ELSE LET best == CHOOSE k \in withcat : \A j \in withcat : conf(j) <= conf(k)
             category == contents[best].v["category"]
         IN Return(<<PyGet(category, "id", None), PyGet(category, "confidence", None)>>)

\* mutant: the scan goes on until a category that has an id
RECURSIVE ScanContents_FirstWithId(_, _)
ScanContents_FirstWithId(contents, i) ==
    IF i > Len(contents) THEN Return(<<None, None>>)
    ELSE LET content == contents[i] IN
         IF ~IsDict(content) THEN Raise(AttributeError)
         ELSE LET category == PyGet(content, "category", None) IN
              IF Truthy(category) /\ IsDict(category) /\ "id" \in DOMAIN category.v
              THEN Return(<<PyGet(category, "id", None),
                            PyGet(category, "confidence", None)>>)
              ELSE ScanContents_FirstWithId(contents, i + 1)

\* lines 143-148: the scan of contents for the first truthy category
RECURSIVE ScanContents(_, _)
ScanContents(contents, i) ==
    IF i > Len(contents) THEN Return(<<None, None>>)
    ELSE LET content == contents[i] IN
         IF ~IsDict(content) THEN Raise(AttributeError)
         ELSE LET category == PyGet(content, "category", None) IN
              IF Truthy(category)
              THEN IF ~IsDict(category) THEN Raise(AttributeError)
                   ELSE Return(<<PyGet(category, "id", None),
                                 PyGet(category, "confidence", None)>>)
              ELSE ScanContents(contents, i + 1)

\* mutant: the elements of an array field are emitted as they are
RECURSIVE _flatten_fields_KeepsItems(_)
_flatten_fields_KeepsItems(field_results) ==
    Obj([name \in DOMAIN field_results.v |->
        LET field == field_results.v[name] IN
        IF IsDict(field)
        THEN IF "value" \in DOMAIN field.v THEN field.v["value"]
             ELSE IF "values" \in DOMAIN field.v THEN field.v["values"]
             ELSE _flatten_fields_KeepsItems(field)
        ELSE field])

\* the "values" of an array field is a list
RECURSIVE _flatten_fields(_)
_flatten_fields(field_results) ==
    Obj([name \in DOMAIN field_results.v |->
        LET field == field_results.v[name] IN
        IF IsDict(field)
        THEN IF "value" \in DOMAIN field.v THEN field.v["value"]
             ELSE IF "values" \in DOMAIN field.v
             THEN Arr([i \in DOMAIN field.v["values"].v |->
                      LET item == field.v["values"].v[i] IN
                      IF IsDict(item) THEN _flatten_fields(item) ELSE item])
             ELSE _flatten_fields(field)
        ELSE field])

\* returns <<category_id, fields, confidence>> or raises
_parse_cu_response(response) ==
    IF ~IsDict(response) THEN Raise(AttributeError)
    ELSE LET contents == PyGet(response, "contents", None)
             field_results == PyGet(response, "fields", None)
             cls == IF Truthy(contents)
                    THEN IF contents.t = "arr" THEN ScanContents(contents.v, 1)
                         ELSE Raise(AttributeError)
                    ELSE Return(<<None, None>>)
         IN
         IF cls.kind = "raise" THEN cls
         ELSE IF Truthy(field_results) /\ ~IsDict(field_results) THEN Raise(AttributeError)
         ELSE Return(<<cls.value[1],
                       IF Truthy(field_results) THEN _flatten_fields(field_results)
                       ELSE EmptyDict,
                       cls.value[2]>>)

AnalysisResult(document_id, category_id, extracted_fields, confidence, analyzed_at) ==
    [document_id |-> document_id, category_id |-> category_id,
     extracted_fields |-> extracted_fields, confidence |-> confidence,
     analyzed_at |-> analyzed_at]

(***************************************************************************)
(* DocumentRepository (Azure Table Storage).                               *)
(***************************************************************************)
\* the keys of the dicts that are serialized, in serialization order
KeyOrder == <<"a", "b", "items">>

\* json.dumps: the text as a sequence of tokens
RECURSIVE JsonDumps(_)
RECURSIVE DumpItems(_, _)
RECURSIVE DumpMembers(_, _, _)
DumpItems(items, i) ==
    IF i > Len(items) THEN <<>>
    ELSE (IF i > 1 THEN <<", ">> ELSE <<>>) \o JsonDumps(items[i]) \o DumpItems(items, i + 1)
DumpMembers(d, k, first) ==
    IF k > Len(KeyOrder) THEN <<>>
    ELSE IF KeyOrder[k] \in DOMAIN d
    THEN (IF first THEN <<>> ELSE <<", ">>)
         \o <<"\"", KeyOrder[k], "\"", ": ">> \o JsonDumps(d[KeyOrder[k]])
         \o DumpMembers(d, k + 1, FALSE)
    ELSE DumpMembers(d, k + 1, first)
JsonDumps(x) ==
    CASE x.t = "null" -> <<"null">>
      [] x.t = "str" -> <<"\"">> \o x.v \o <<"\"">>
      [] x.t = "num" -> <<ToString(x.v)>>
      [] x.t = "arr" -> <<"[">> \o DumpItems(x.v, 1) \o <<"]">>
      [] x.t = "obj" -> <<"{">> \o DumpMembers(x.v, 1, TRUE) \o <<"}">>

\* datetime.isoformat()
isoformat(dt) == Str(<<"2025-01-01T00:00:", ToString(dt.v)>>)

PARTITION_KEY == "documents"

\* DocumentRepository._to_entity
_to_entity(result) ==
    [PartitionKey |-> PARTITION_KEY,
     RowKey |-> result.document_id,
     category_id |-> IF Truthy(result.category_id) THEN result.category_id ELSE Str(<<>>),
     extracted_fields |-> Str(JsonDumps(result.extracted_fields)),
     confidence |-> result.confidence,
     analyzed_at |-> isoformat(result.analyzed_at)]

\* mutant: the entity is inserted beside the one of the same key
_upsert_entity_Insert(tbl, entity) == tbl \cup {entity}

\* TableRepository._upsert_entity: insert, or replace the entity of the same key
_upsert_entity(tbl, entity) ==
    {e \in tbl : ~(e.PartitionKey = entity.PartitionKey /\ e.RowKey = entity.RowKey)}
    \cup {entity}

\* TableRepository._get_entity
_get_entity(tbl, partition_key, row_key) ==
    LET found == {e \in tbl : e.PartitionKey = partition_key /\ e.RowKey = row_key} IN
    IF found = {} THEN None ELSE CHOOSE e \in found : TRUE

(***************************************************************************)
(* What the collaborators may answer.                                      *)
(***************************************************************************)
\* analysis payloads of the provider
R1 == Obj([contents |-> Arr(<<Obj([category |-> Obj([id |-> Str(<<"x">>), confidence |-> Num(90)])])>>),
           fields |-> Obj([a |-> Obj([value |-> Num(1)])])])
R2 == Obj([fields |-> Obj([items |-> Obj([values |-> Arr(<<Obj([a |-> Obj([value |-> Num(1)])])>>)])])])
\* a body whose contents entry is not an object: parsing raises
RBad == Obj([contents |-> Arr(<<Num(7)>>)])
Payloads == {R1, R2, RBad}

OperationLocation == "Operation-Location"
\* the provider opens one operation per submit: its handle is named after
\* the invocation that submitted
Handle(p) == Str(<<"https://cu/operations/", p>>)

SubmitResponses(p) ==
    {[code |-> 200, headers |-> EmptyDict, body |-> b] : b \in Payloads}
    \cup {[code |-> 202, headers |-> Obj(OperationLocation :> h), body |-> EmptyDict] :
              h \in {Handle(p), Str(<<>>)}}
    \cup {[code |-> 202, headers |-> EmptyDict, body |-> EmptyDict],
          [code |-> 500, headers |-> EmptyDict, body |-> EmptyDict]}

\* poll bodies that keep the operation pending
PendingBodies ==
    {Obj([status |-> Str(running)]),
     Obj([status |-> Str(<<"N","o","t","S","t","a","r","t","e","d">>)])}
SucceededBodies ==
    {Obj([status |-> Str(<<"S","u","c","c","e","e","d","e","d">>), result |-> r]) : r \in Payloads}
    \cup {Obj([status |-> Str(succeeded)])}
FailedBodies ==
    {Obj([status |-> Str(failed), error |-> Obj([message |-> Str(<<"m">>)])]),
     Obj([status |-> Str(<<"F","a","i","l","e","d">>), error |-> EmptyDict]),
     Obj([status |-> Str(failed)])}
UnknownBodies ==
    {EmptyDict, Obj([status |-> Str(<<>>)]),
     Obj([status |-> Str(<<"c","a","n","c","e","l","e","d">>)])}
PollBodies == PendingBodies \cup SucceededBodies \cup FailedBodies \cup UnknownBodies

PollResponses ==
    {[code |-> 200, body |-> b] : b \in PollBodies}
    \cup {[code |-> c, body |-> EmptyDict] : c \in {202, 500}}

\* the URL BlobStorageClient.upload returns for the blob <document_id>/f.pdf
UploadUrl(d) == <<"https:", "", "acct.blob.core.windows.net", "docs", d, "f.pdf">>

\* BlobStorageClient.get_sas_url: the blob URL with a token appended
SasUrl(blob_name) == [blob |-> blob_name, sas |-> "token"]

router_analyzer_id == "doc-router"
poll_interval == 2

(***************************************************************************)
(* State.                                                                  *)
(***************************************************************************)
VARIABLES
    pc,         \* position of each analyze_document invocation
    document_id,\* its document_id argument
    blob_url,   \* its blob_url argument
    sas_url,    \* the URL get_sas_url returned
    submitted,  \* the response to its submit POST
    operation_url, \* the Operation-Location of the submit response
    calls,      \* the calls it has made, in order (get_sas_url, POST, sleep, GET, save)
    answers,    \* the poll responses it has received, in order
    raw_result, \* what ContentUnderstandingClient.analyze returned
    result,     \* the AnalysisResult it built (and returns)
    err,        \* the exception that ended it
    table,      \* the entities of the results table
    saves,      \* the saves that took effect, in order: who saved what
    clock,      \* datetime.utcnow()
    started,    \* number of invocations started
    blobs,      \* the blobs of the storage container
    feedback_table, \* the entities of the feedback table
    issued,     \* the values uuid.uuid4() has returned, in order
    reply,      \* the last upload / get_result / submit_feedback call and its outcome
    analyzers,  \* the analyzer definitions the provider holds
    setup,      \* the AnalyzerBuilder.setup_all run: position, configuration, requests
    admin,      \* the last direct create / get / delete_analyzer call and its outcome
    arg,        \* the argument of a normalizer / translator call
    out         \* what that call returned

vars == <<pc, document_id, blob_url, sas_url, submitted, operation_url, calls, answers,
          raw_result, result, err, table, saves, clock, started,
          blobs, feedback_table, issued, reply, analyzers, setup, admin, arg, out>>

\* the state of analyze_document and of the results table
analysis_vars == <<pc, document_id, blob_url, sas_url, submitted, operation_url, calls, answers,
                   raw_result, result, err, table, saves, clock, started>>
\* the state of the other DocumentService operations
service_vars == <<blobs, feedback_table, issued, reply>>
\* the state of the analyzer administration
admin_vars == <<analyzers, setup, admin>>
\* a call of a pure function
call_vars == <<arg, out>>

NoCall == [op |-> "none", n |-> 0]

locals == <<document_id, blob_url, sas_url, submitted, operation_url, calls, answers,
            raw_result, result, err>>

Init ==
    /\ pc = [p \in Procs |-> "idle"]
    /\ document_id = [p \in Procs |-> "d1"]
    /\ blob_url = [p \in Procs |-> <<>>]
    /\ sas_url = [p \in Procs |-> None]
    /\ submitted = [p \in Procs |-> None]
    /\ operation_url = [p \in Procs |-> None]
    /\ calls = [p \in Procs |-> <<>>]
    /\ answers = [p \in Procs |-> <<>>]
    /\ raw_result = [p \in Procs |-> None]
    /\ result = [p \in Procs |-> None]
    /\ err = [p \in Procs |-> NoError]
    /\ table = {}
    /\ saves = <<>>
    /\ clock = 0
    /\ started = 0
    /\ blobs = {}
    /\ feedback_table = {}
    /\ issued = <<>>
    /\ reply = NoCall
    /\ analyzers = {}
    /\ setup = [pc |-> "idle"]
    /\ admin = NoCall
    /\ arg = None
    /\ out = [fn |-> "none"]

Called(p, call) == calls' = [calls EXCEPT ![p] = Append(@, call)]
\* the exception e, raised in the call `at`, propagates out of analyze_document
Raised(p, e, at) ==
    /\ err' = [err EXCEPT ![p] = [kind |-> e.kind, msg |-> e.msg, at |-> at]]
    /\ pc' = [pc EXCEPT ![p] = "raised"]

(***************************************************************************)
(* DocumentService.analyze_document, entry: a caller invokes it for        *)
(* document d with the URL the upload of d returned.                       *)
(***************************************************************************)
analyze_document(p, d) ==
    /\ pc[p] \in {"idle", "returned", "raised"}
    /\ started < MaxInvocations
    /\ started' = started + 1
    /\ pc' = [pc EXCEPT ![p] = "get_sas_url"]
    /\ document_id' = [document_id EXCEPT ![p] = d]
    /\ blob_url' = [blob_url EXCEPT ![p] = UploadUrl(d)]
    /\ sas_url' = [sas_url EXCEPT ![p] = None]
    /\ submitted' = [submitted EXCEPT ![p] = None]
    /\ operation_url' = [operation_url EXCEPT ![p] = None]
    /\ calls' = [calls EXCEPT ![p] = <<>>]
    /\ answers' = [answers EXCEPT ![p] = <<>>]
    /\ raw_result' = [raw_result EXCEPT ![p] = None]
    /\ result' = [result EXCEPT ![p] = None]
    /\ err' = [err EXCEPT ![p] = NoError]
    /\ UNCHANGED <<table, saves, clock>>

\* document_service.py lines 62-63: blob name, then BlobStorageClient.get_sas_url
get_sas_url(p) ==
    /\ pc[p] = "get_sas_url"
    /\ LET blob_name == _extract_blob_name(blob_url[p]) IN
       /\ Called(p, [op |-> "get_sas_url", blob_name |-> blob_name])
       /\ \E ok \in BOOLEAN :
            IF ok
            THEN /\ sas_url' = [sas_url EXCEPT ![p] = SasUrl(blob_name)]
                 /\ pc' = [pc EXCEPT ![p] = "submit"]
                 /\ err' = err
            ELSE /\ Raised(p, CollaboratorError, "get_sas_url")
                 /\ sas_url' = sas_url
    /\ UNCHANGED <<document_id, blob_url, submitted, operation_url, answers, raw_result, result,
                   table, saves, clock, started>>

(***************************************************************************)
(* ContentUnderstandingClient.analyze(analyzer_id, document_url), as       *)
(* called at document_service.py lines 66-68.                              *)
(***************************************************************************)
\* mutant: a 200 answer is not returned inline, the client goes on to poll
Submitted_NoInline(response) ==
    IF response.code \notin {200, 202}
    THEN Raise(ContentUnderstandingError(<<"Failed to start analysis: ", "text">>))
    ELSE IF ~Truthy(PyGet(response.headers, OperationLocation, None))
    THEN Raise(ContentUnderstandingError(<<"No operation location in response">>))
    ELSE Continue

\* content_understanding.py lines 67-82: the submit POST and its response
Submitted(response) ==
    IF response.code \notin {200, 202}
    THEN Raise(ContentUnderstandingError(<<"Failed to start analysis: ", "text">>))
    ELSE IF response.code = 200
    THEN Return(response.body)
    ELSE IF ~Truthy(PyGet(response.headers, OperationLocation, None))
    THEN Raise(ContentUnderstandingError(<<"No operation location in response">>))
    ELSE Continue

\* mutant: the document is submitted to a category analyzer
analyze_submit_CategoryAnalyzer(p, responses) ==
    /\ pc[p] = "submit"
    /\ \E response \in responses :
         LET o == Submitted(response) IN
         /\ Called(p, [op |-> "POST", analyzer_id |-> "a1", json |-> [url |-> sas_url[p]]])
         /\ submitted' = [submitted EXCEPT ![p] = response]
         /\ CASE o.kind = "raise" ->
                   /\ Raised(p, o.err, "analyze")
                   /\ UNCHANGED <<raw_result, operation_url>>
              [] o.kind = "return" ->
                   /\ raw_result' = [raw_result EXCEPT ![p] = o.value]
                   /\ pc' = [pc EXCEPT ![p] = "parse"]
                   /\ UNCHANGED <<err, operation_url>>
              [] o.kind = "continue" ->
                   /\ operation_url' = [operation_url EXCEPT ![p] =
                                           PyGet(response.headers, OperationLocation, None)]
                   /\ pc' = [pc EXCEPT ![p] = "sleep"]
                   /\ UNCHANGED <<err, raw_result>>
    /\ UNCHANGED <<document_id, blob_url, sas_url, answers, result,
                   table, saves, clock, started>>

analyze_submit(p, responses) ==
    /\ pc[p] = "submit"
    /\ \E response \in responses :
         LET o == Submitted(response) IN
         /\ Called(p, [op |-> "POST", analyzer_id |-> router_analyzer_id,
                       json |-> [url |-> sas_url[p]]])
         /\ submitted' = [submitted EXCEPT ![p] = response]
         /\ CASE o.kind = "raise" ->
                   /\ Raised(p, o.err, "analyze")
                   /\ UNCHANGED <<raw_result, operation_url>>
              [] o.kind = "return" ->
                   /\ raw_result' = [raw_result EXCEPT ![p] = o.value]
                   /\ pc' = [pc EXCEPT ![p] = "parse"]
                   /\ UNCHANGED <<err, operation_url>>
              [] o.kind = "continue" ->
                   /\ operation_url' = [operation_url EXCEPT ![p] =
                                           PyGet(response.headers, OperationLocation, None)]
                   /\ pc' = [pc EXCEPT ![p] = "sleep"]
                   /\ UNCHANGED <<err, raw_result>>
    /\ UNCHANGED <<document_id, blob_url, sas_url, answers, result,
                   table, saves, clock, started>>

\* line 86: time.sleep(poll_interval)
analyze_sleep(p) ==
    /\ pc[p] = "sleep"
    /\ Called(p, [op |-> "sleep", seconds |-> poll_interval])
    /\ pc' = [pc EXCEPT ![p] = "poll"]
    /\ UNCHANGED <<document_id, blob_url, sas_url, submitted, operation_url, answers, raw_result,
                   result, err, table, saves, clock, started>>

\* mutant: a poll that does not answer 200 is retried
Polled_RetryOnHttpError(response) ==
    IF response.code # 200 THEN Continue ELSE MatchStatus(response.body)

\* lines 87-104: one GET of the operation and the match on its status
Polled(response) ==
    IF response.code # 200
    THEN Raise(ContentUnderstandingError(<<"Failed to get operation status: ", "text">>))
    ELSE MatchStatus(response.body)

\* mutant: the loop gives up after one pending answer
analyze_poll_Capped(p, responses, max_pending) ==
    /\ pc[p] = "poll"
    /\ \E response \in responses :
         LET o == Polled(response) IN
         /\ o.kind = "continue" => Len(answers[p]) < max_pending
         /\ Called(p, [op |-> "GET", url |-> operation_url[p]])
         /\ answers' = [answers EXCEPT ![p] = Append(@, response)]
         /\ CASE o.kind = "raise" ->
                   /\ Raised(p, o.err, "analyze")
                   /\ UNCHANGED raw_result
              [] o.kind = "return" ->
                   /\ raw_result' = [raw_result EXCEPT ![p] = o.value]
                   /\ pc' = [pc EXCEPT ![p] = "parse"]
                   /\ UNCHANGED err
              [] o.kind = "continue" ->
                   /\ IF Len(answers[p]) >= 1
                      THEN Raised(p, ContentUnderstandingError(<<"Timed out">>), "analyze")
                      ELSE pc' = [pc EXCEPT ![p] = "sleep"] /\ UNCHANGED err
                   /\ UNCHANGED raw_result
    /\ UNCHANGED <<document_id, blob_url, sas_url, submitted, operation_url, result,
                   table, saves, clock, started>>

analyze_poll(p, responses, max_pending) ==
    /\ pc[p] = "poll"
    /\ \E response \in responses :
         LET o == Polled(response) IN
         \* the provider keeps an operation pending for at most max_pending polls
         /\ o.kind = "continue" => Len(answers[p]) < max_pending
         /\ Called(p, [op |-> "GET", url |-> operation_url[p]])
         /\ answers' = [answers EXCEPT ![p] = Append(@, response)]
         /\ CASE o.kind = "raise" ->
                   /\ Raised(p, o.err, "analyze")
                   /\ UNCHANGED raw_result
              [] o.kind = "return" ->
                   /\ raw_result' = [raw_result EXCEPT ![p] = o.value]
                   /\ pc' = [pc EXCEPT ![p] = "parse"]
                   /\ UNCHANGED err
              [] o.kind = "continue" ->
                   /\ pc' = [pc EXCEPT ![p] = "sleep"]
                   /\ UNCHANGED <<err, raw_result>>
    /\ UNCHANGED <<document_id, blob_url, sas_url, submitted, operation_url, result,
                   table, saves, clock, started>>

(***************************************************************************)
(* DocumentService.analyze_document, after the gateway returned.           *)
(***************************************************************************)
utcnow == [t |-> "datetime", v |-> clock]

\* mutant: when parsing raises, what was gathered so far is saved first
analyze_document_parse_SavesPartial(p) ==
    /\ pc[p] = "parse"
    /\ LET o == _parse_cu_response(raw_result[p]) IN
       IF o.kind = "raise"
       THEN /\ Raised(p, o.err, "_parse_cu_response")
            /\ result' = result
            /\ table' = _upsert_entity(table,
                   [PartitionKey |-> "documents", RowKey |-> document_id[p],
                    category_id |-> Str(<<>>), extracted_fields |-> Str(<<"{", "}">>),
                    confidence |-> None, analyzed_at |-> Str(<<"2025-01-01T00:00:", ToString(clock)>>)])
       ELSE /\ result' = [result EXCEPT ![p] =
                   AnalysisResult(document_id[p], o.value[1], o.value[2], o.value[3],
                                  [t |-> "datetime", v |-> clock])]
            /\ pc' = [pc EXCEPT ![p] = "save"]
            /\ err' = err
            /\ table' = table
    /\ UNCHANGED <<document_id, blob_url, sas_url, submitted, operation_url, calls, answers,
                   raw_result, saves, clock, started>>

\* document_service.py lines 70-80: parse the response and build the result
analyze_document_parse(p) ==
    /\ pc[p] = "parse"
    /\ LET o == _parse_cu_response(raw_result[p]) IN
       IF o.kind = "raise"
       THEN /\ Raised(p, o.err, "_parse_cu_response")
            /\ result' = result
       ELSE /\ result' = [result EXCEPT ![p] =
                   AnalysisResult(document_id[p], o.value[1], o.value[2], o.value[3], utcnow)]
            /\ pc' = [pc EXCEPT ![p] = "save"]
            /\ err' = err
    /\ UNCHANGED <<document_id, blob_url, sas_url, submitted, operation_url, calls, answers,
                   raw_result, table, saves, clock, started>>

\* mutant: a record that exists is kept (first write wins)
save_FirstWriteWins(tbl, r) ==
    IF _get_entity(tbl, PARTITION_KEY, r.document_id) # None THEN tbl
    ELSE _upsert_entity(tbl, _to_entity(r))

\* mutant: the save replaces the content of the table
save_ReplacesTable(tbl, r) == {_to_entity(r)}

\* DocumentRepository.save
save(tbl, r) == _upsert_entity(tbl, _to_entity(r))

\* document_service.py lines 81-84: save the result and return it; the
\* upsert either takes effect or raises without effect
analyze_document_save(p) ==
    /\ pc[p] = "save"
    /\ Called(p, [op |-> "save", result |-> result[p]])
    /\ \E ok \in BOOLEAN :
         IF ok
         THEN /\ table' = save(table, result[p])
              /\ saves' = Append(saves, [by |-> p, result |-> result[p]])
              /\ pc' = [pc EXCEPT ![p] = "returned"]
              /\ err' = err
         ELSE /\ Raised(p, CollaboratorError, "save")
              /\ UNCHANGED <<table, saves>>
    /\ UNCHANGED <<document_id, blob_url, sas_url, submitted, operation_url, answers, raw_result,
                   result, clock, started>>

\* time passes
Tick ==
    /\ clock < MaxTime
    /\ clock' = clock + 1
    /\ UNCHANGED <<pc, locals, table, saves, started>>

\* the steps of caller p, against a provider with the given repertoire
Step(p, submit_responses, poll_responses, max_pending) ==
    \/ \E d \in DocIds : analyze_document(p, d)
    \/ get_sas_url(p)
    \/ analyze_submit(p, submit_responses)
    \/ analyze_sleep(p)
    \/ analyze_poll(p, poll_responses, max_pending)
    \/ analyze_document_parse(p)
    \/ analyze_document_save(p)

\* one caller: the invocations follow one another
Next ==
    /\ \/ Step("p1", SubmitResponses("p1"), PollResponses, MaxPolls)
       \/ Tick
    /\ UNCHANGED <<service_vars, admin_vars, call_vars>>

Spec == Init /\ [][Next]_vars

(***************************************************************************)
(* Two callers: their invocations interleave step by step.  To keep the    *)
(* interleavings enumerable the provider's repertoire is narrowed: an      *)
(* operation stays pending for at most MaxConcurrentPolls polls and then   *)
(* succeeds with a payload or fails, and every payload parses.             *)
(***************************************************************************)
ConcurrentSubmitResponses(p) ==
    {[code |-> 200, headers |-> EmptyDict, body |-> R1],
     [code |-> 200, headers |-> EmptyDict, body |-> R2],
     [code |-> 202, headers |-> Obj(OperationLocation :> Handle(p)), body |-> EmptyDict],
     [code |-> 500, headers |-> EmptyDict, body |-> EmptyDict]}

ConcurrentPollResponses ==
    {[code |-> 200, body |-> b] :
        b \in {Obj([status |-> Str(running)]),
               Obj([status |-> Str(succeeded), result |-> R1]),
               Obj([status |-> Str(succeeded), result |-> R2]),
               Obj([status |-> Str(failed), error |-> Obj([message |-> Str(<<"m">>)])])}}

NextConcurrent ==
    /\ \/ \E p \in Procs :
             Step(p, ConcurrentSubmitResponses(p), ConcurrentPollResponses, MaxConcurrentPolls)
       \/ Tick
    /\ UNCHANGED <<service_vars, admin_vars, call_vars>>

SpecConcurrent == Init /\ [][NextConcurrent]_vars

(***************************************************************************)
(* Reading the results table back: json.loads, datetime.fromisoformat and  *)
(* DocumentRepository._to_model.                                           *)
(***************************************************************************)
\* the number a token of digits denotes
ParseNum(tok) == CHOOSE n \in 0..100 : ToString(n) = tok

\* the position of the next quote token at or after i
RECURSIVE ClosingQuote(_, _)
ClosingQuote(toks, i) == IF toks[i] = "\"" THEN i ELSE ClosingQuote(toks, i + 1)

\* json.loads of the token sequence: the value at position i and the
\* position after it
RECURSIVE ParseValue(_, _)
RECURSIVE ParseItems(_, _, _)
RECURSIVE ParseMembers(_, _, _)
ParseItems(toks, i, acc) ==
    LET r == ParseValue(toks, i) IN
    IF toks[r.next] = "]"
    THEN [v |-> Arr(Append(acc, r.v)), next |-> r.next + 1]
    ELSE ParseItems(toks, r.next + 1, Append(acc, r.v))
ParseMembers(toks, i, acc) ==
    LET key == toks[i + 1]
        r == ParseValue(toks, i + 4)
        members == (key :> r.v) @@ acc
    IN
    IF toks[r.next] = "}"
    THEN [v |-> Obj(members), next |-> r.next + 1]
    ELSE ParseMembers(toks, r.next + 1, members)
ParseValue(toks, i) ==
    CASE toks[i] = "null" -> [v |-> None, next |-> i + 1]
      [] toks[i] = "\"" ->
            LET j == ClosingQuote(toks, i + 1) IN
            [v |-> Str(SubSeq(toks, i + 1, j - 1)), next |-> j + 1]
      [] toks[i] = "[" ->
            IF toks[i + 1] = "]" THEN [v |-> Arr(<<>>), next |-> i + 2]
            ELSE ParseItems(toks, i + 1, <<>>)
      [] toks[i] = "{" ->
            IF toks[i + 1] = "}" THEN [v |-> EmptyDict, next |-> i + 2]
            ELSE ParseMembers(toks, i + 1, <<>>)
      [] OTHER -> [v |-> Num(ParseNum(toks[i])), next |-> i + 1]

JsonLoads(s) == ParseValue(s, 1).v

\* datetime.fromisoformat
fromisoformat(s) == [t |-> "datetime", v |-> ParseNum(s.v[2])]

\* mutant: extracted_fields is handed back as the stored text
_to_model_NoParse(entity) ==
    AnalysisResult(entity.RowKey,
                   IF Truthy(entity.category_id) THEN entity.category_id ELSE None,
                   entity.extracted_fields,
                   entity.confidence,
                   IF IsStr(entity.analyzed_at) THEN fromisoformat(entity.analyzed_at)
                   ELSE entity.analyzed_at)

\* table_storage.py lines 104-118 (every stored entity has all its
\* properties, so the defaults of the .get calls are not used)
_to_model(entity) ==
    AnalysisResult(entity.RowKey,
                   IF Truthy(entity.category_id) THEN entity.category_id ELSE None,
                   JsonLoads(entity.extracted_fields.v),
                   entity.confidence,
                   IF IsStr(entity.analyzed_at) THEN fromisoformat(entity.analyzed_at)
                   ELSE entity.analyzed_at)

\* mutant: a missing entity is an error
get_RaisesOnMissing(tbl, d) ==
    LET entity == _get_entity(tbl, PARTITION_KEY, d) IN
    IF entity = None THEN Raise(CollaboratorError) ELSE Return(_to_model(entity))

\* table_storage.py lines 63-68: DocumentRepository.get
get(tbl, d) ==
    LET entity == _get_entity(tbl, PARTITION_KEY, d) IN
    IF entity = None THEN Return(None) ELSE Return(_to_model(entity))

(***************************************************************************)
(* FeedbackRepository.                                                     *)
(***************************************************************************)
FeedbackRecord(feedback_id, d, corrected_fields, reviewer, comment, created_at) ==
    [feedback_id |-> feedback_id, document_id |-> d, corrected_fields |-> corrected_fields,
     reviewer |-> reviewer, comment |-> comment, created_at |-> created_at]

FEEDBACK_PARTITION_KEY == "feedback"

\* table_storage.py lines 156-166: FeedbackRepository._to_entity
FeedbackRepository_to_entity(fb) ==
    [PartitionKey |-> FEEDBACK_PARTITION_KEY,
     RowKey |-> fb.feedback_id,
     document_id |-> fb.document_id,
     corrected_fields |-> Str(JsonDumps(fb.corrected_fields)),
     reviewer |-> IF Truthy(fb.reviewer) THEN fb.reviewer ELSE Str(<<>>),
     comment |-> IF Truthy(fb.comment) THEN fb.comment ELSE Str(<<>>),
     created_at |-> isoformat(fb.created_at)]

\* table_storage.py lines 140-144: FeedbackRepository.save
FeedbackRepository_save(tbl, fb) == _upsert_entity(tbl, FeedbackRepository_to_entity(fb))

(***************************************************************************)
(* The other operations of DocumentService, and the HTTP routes that call  *)
(* them.                                                                   *)
(***************************************************************************)
\* the values uuid.uuid4() can return; str(uuid) is the value itself
Uuids == {ToString(i) : i \in 1..MaxServiceCalls}
Issued == {issued[i] : i \in DOMAIN issued}

Filenames == {<<"f.pdf">>}
Contents == {"x"}
ContentTypes == {"application/pdf"}
CorrectedFields == {Obj([a |-> Num(2)])}
Reviewers == {None, Str(<<"r">>)}

\* a call of the service by a client, and its outcome
ServiceCall(op, args, o) ==
    reply' = [op |-> op, args |-> args, outcome |-> o, n |-> reply.n + 1]

\* BlobStorageClient.upload: the blob is written (overwrite=True)
upload(container, blob_name, data, content_type) ==
    {b \in container : b.name # blob_name}
    \cup {[name |-> blob_name, data |-> data, content_type |-> content_type]}

\* the url of the blob client
BlobUrl(blob_name) == <<"https:", "", "acct.blob.core.windows.net", "docs">> \o blob_name

\* mutant: the document id is derived from the file name
upload_document_IdFromName(filename, content, content_type) ==
    /\ reply.n < MaxServiceCalls
    /\ LET id == filename[1]
           blob_name == <<id>> \o filename
       IN
       /\ issued' = issued
       /\ \E ok \in BOOLEAN :
            IF ok
            THEN /\ blobs' = upload(blobs, blob_name, content, content_type)
                 /\ ServiceCall("upload_document", <<filename, content, content_type>>,
                                Return(<<id, BlobUrl(blob_name)>>))
            ELSE /\ blobs' = blobs
                 /\ ServiceCall("upload_document", <<filename, content, content_type>>,
                                Raise(CollaboratorError))
    /\ UNCHANGED <<feedback_table, analysis_vars>>

\* mutant: the blob is stored under the file name alone
upload_document_FlatName(filename, content, content_type) ==
    /\ reply.n < MaxServiceCalls
    /\ \E uuid4 \in Uuids \ Issued :
         LET id == uuid4
             blob_name == filename
         IN
         /\ issued' = Append(issued, uuid4)
         /\ \E ok \in BOOLEAN :
              IF ok
              THEN /\ blobs' = upload(blobs, blob_name, content, content_type)
                   /\ ServiceCall("upload_document", <<filename, content, content_type>>,
                                  Return(<<id, BlobUrl(blob_name)>>))
              ELSE /\ blobs' = blobs
                   /\ ServiceCall("upload_document", <<filename, content, content_type>>,
                                  Raise(CollaboratorError))
    /\ UNCHANGED <<feedback_table, analysis_vars>>

\* document_service.py lines 37-51; uuid.uuid4() returns a value it has not
\* returned before
upload_document(filename, content, content_type) ==
    /\ reply.n < MaxServiceCalls
    /\ \E uuid4 \in Uuids \ Issued :
         LET id == uuid4
             blob_name == <<id>> \o filename
         IN
         /\ issued' = Append(issued, uuid4)
         /\ \E ok \in BOOLEAN :
              IF ok
              THEN /\ blobs' = upload(blobs, blob_name, content, content_type)
                   /\ ServiceCall("upload_document", <<filename, content, content_type>>,
                                  Return(<<id, BlobUrl(blob_name)>>))
              ELSE /\ blobs' = blobs
                   /\ ServiceCall("upload_document", <<filename, content, content_type>>,
                                  Raise(CollaboratorError))
    /\ UNCHANGED <<feedback_table, analysis_vars>>

\* function_app.py lines 109-130: the route GET documents/{document_id}/result,
\* given the outcome of DocumentService.get_result
get_result_route(d, o) ==
    IF d = "" THEN [status_code |-> 400, error |-> <<"Document ID required">>]
    ELSE IF o.kind = "raise" THEN [status_code |-> 500, error |-> o.err.msg]
    ELSE IF o.value = None THEN [status_code |-> 404, error |-> <<"Result not found">>]
    ELSE [status_code |-> 200, error |-> <<>>, document_id |-> o.value.document_id,
          category_id |-> o.value.category_id,
          extracted_fields |-> o.value.extracted_fields,
          confidence |-> o.value.confidence,
          analyzed_at |-> isoformat(o.value.analyzed_at)]

\* document_service.py lines 86-88, as called by the route; the read of the
\* table either answers or fails
get_result(d) ==
    /\ reply.n < MaxServiceCalls
    /\ \E ok \in BOOLEAN :
         LET o == IF ok THEN get(table, d) ELSE Raise(CollaboratorError) IN
         reply' = [op |-> "get_result", args |-> <<d>>, outcome |-> o, n |-> reply.n + 1,
                   read |-> ok, http |-> get_result_route(d, o)]
    /\ UNCHANGED <<blobs, feedback_table, issued, analysis_vars>>

\* mutant: feedback is accepted only for a document that has a result
submit_feedback_ChecksResult(d, corrected_fields, reviewer, comment) ==
    /\ reply.n < MaxServiceCalls
    /\ \E uuid4 \in Uuids \ Issued :
         LET feedback == FeedbackRecord(uuid4, d, corrected_fields, reviewer, comment, utcnow) IN
         /\ issued' = Append(issued, uuid4)
         /\ IF _get_entity(table, PARTITION_KEY, d) # None
            THEN /\ feedback_table' = FeedbackRepository_save(feedback_table, feedback)
                 /\ ServiceCall("submit_feedback", <<d, corrected_fields, reviewer, comment>>,
                                Return(feedback))
            ELSE /\ feedback_table' = feedback_table
                 /\ ServiceCall("submit_feedback", <<d, corrected_fields, reviewer, comment>>,
                                Raise([kind |-> "NotFoundError", msg |-> <<"no result">>]))
    /\ UNCHANGED <<blobs, analysis_vars>>

\* document_service.py lines 90-114; the upsert either takes effect or
\* raises without effect
submit_feedback(d, corrected_fields, reviewer, comment) ==
    /\ reply.n < MaxServiceCalls
    /\ \E uuid4 \in Uuids \ Issued :
         LET feedback == FeedbackRecord(uuid4, d, corrected_fields, reviewer, comment, utcnow) IN
         /\ issued' = Append(issued, uuid4)
         /\ \E ok \in BOOLEAN :
              IF ok
              THEN /\ feedback_table' = FeedbackRepository_save(feedback_table, feedback)
                   /\ ServiceCall("submit_feedback", <<d, corrected_fields, reviewer, comment>>,
                                  Return(feedback))
              ELSE /\ feedback_table' = feedback_table
                   /\ ServiceCall("submit_feedback", <<d, corrected_fields, reviewer, comment>>,
                                  Raise(CollaboratorError))
    /\ UNCHANGED <<blobs, analysis_vars>>

\* table_storage.py lines 168-183: FeedbackRepository._to_model
FeedbackRepository_to_model(entity) ==
    FeedbackRecord(entity.RowKey, entity.document_id,
                   JsonLoads(entity.corrected_fields.v),
                   IF Truthy(entity.reviewer) THEN entity.reviewer ELSE None,
                   IF Truthy(entity.comment) THEN entity.comment ELSE None,
                   IF IsStr(entity.created_at) THEN fromisoformat(entity.created_at)
                   ELSE entity.created_at)

\* table_storage.py lines 133-138: the records of the entities the query yields
get_by_document(tbl, d) ==
    {FeedbackRepository_to_model(e) :
        e \in {f \in tbl : f.PartitionKey = FEEDBACK_PARTITION_KEY /\ f.document_id = d}}

\* mutant: feedback is shown only for a document that has a result
get_feedback_OnlyAnalysed(d) ==
    /\ reply.n < MaxServiceCalls
    /\ ServiceCall("get_feedback", <<d>>,
                   Return(IF _get_entity(table, PARTITION_KEY, d) = None THEN {}
                          ELSE get_by_document(feedback_table, d)))
    /\ UNCHANGED <<blobs, feedback_table, issued, analysis_vars>>

\* document_service.py lines 116-118
get_feedback(d) ==
    /\ reply.n < MaxServiceCalls
    /\ ServiceCall("get_feedback", <<d>>, Return(get_by_document(feedback_table, d)))
    /\ UNCHANGED <<blobs, feedback_table, issued, analysis_vars>>

\* the clients of the service: uploads, feedback and reads, while one
\* caller analyses documents until a result is stored; the provider answers
\* the submit inline or with an operation that has succeeded at the first poll
ServiceSubmitResponses ==
    {[code |-> 200, headers |-> EmptyDict, body |-> R1],
     [code |-> 202, headers |-> Obj(OperationLocation :> Handle("p1")), body |-> EmptyDict]}
ServicePollResponses ==
    {[code |-> 200, body |-> Obj([status |-> Str(succeeded), result |-> R2])]}

NextService ==
    /\ \/ \E filename \in Filenames, content \in Contents, content_type \in ContentTypes :
             upload_document(filename, content, content_type)
       \/ \E d \in DocIds : get_result(d)
       \/ \E d \in DocIds, corrected_fields \in CorrectedFields, reviewer \in Reviewers :
             submit_feedback(d, corrected_fields, reviewer, None)
       \/ \E d \in DocIds : get_feedback(d)
       \/ /\ saves = <<>>
          /\ Step("p1", ServiceSubmitResponses, ServicePollResponses, 0)
          /\ UNCHANGED service_vars
    /\ UNCHANGED <<admin_vars, call_vars>>

SpecService == Init /\ [][NextService]_vars

(***************************************************************************)
(* Upload, then analysis of what was uploaded: analyze_document is called  *)
(* with the id and the URL an upload_document returned, or with a URL of   *)
(* another origin, until a result is stored.                               *)
(***************************************************************************)
\* URLs that BlobStorageClient.upload did not return: of the storage
\* emulator (one of a file whose name contains ".blob.core.windows.net"),
\* and a bare blob name
OtherLocators ==
    {<<"http:", "", "127.0.0.1:10000", "devstoreaccount1", "docs", "d1", "f.pdf">>,
     <<"http:", "", "127.0.0.1:10000", "devstoreaccount1", "docs", "d1",
       "x.blob.core.windows.net.pdf">>,
     <<"d1", "f.pdf">>}

\* document_service.py line 53: analyze_document(document_id, blob_url)
analyze_document_blob_url(p, d, url) ==
    /\ pc[p] \in {"idle", "returned", "raised"}
    /\ started < MaxInvocations
    /\ started' = started + 1
    /\ pc' = [pc EXCEPT ![p] = "get_sas_url"]
    /\ document_id' = [document_id EXCEPT ![p] = d]
    /\ blob_url' = [blob_url EXCEPT ![p] = url]
    /\ sas_url' = [sas_url EXCEPT ![p] = None]
    /\ submitted' = [submitted EXCEPT ![p] = None]
    /\ operation_url' = [operation_url EXCEPT ![p] = None]
    /\ calls' = [calls EXCEPT ![p] = <<>>]
    /\ answers' = [answers EXCEPT ![p] = <<>>]
    /\ raw_result' = [raw_result EXCEPT ![p] = None]
    /\ result' = [result EXCEPT ![p] = None]
    /\ err' = [err EXCEPT ![p] = NoError]
    /\ UNCHANGED <<table, saves, clock>>

NextLocator ==
    /\ \/ \E filename \in {<<"f.pdf">>, <<"dir", "f.pdf">>}, content \in Contents, content_type \in ContentTypes :
             upload_document(filename, content, content_type)
       \/ /\ saves = <<>>
          /\ reply.op = "upload_document" /\ reply.outcome.kind = "return"
          /\ analyze_document_blob_url("p1", reply.outcome.value[1], reply.outcome.value[2])
          /\ UNCHANGED service_vars
       \/ /\ saves = <<>>
          /\ \E url \in OtherLocators : analyze_document_blob_url("p1", "d1", url)
          /\ UNCHANGED service_vars
       \/ /\ saves = <<>>
          /\ Step("p1", ServiceSubmitResponses, ServicePollResponses, 0)
          /\ UNCHANGED service_vars
    /\ UNCHANGED <<admin_vars, call_vars>>

SpecLocator == Init /\ [][NextLocator]_vars

(***************************************************************************)
(* AnalyzerBuilder: the translation of an extraction schema and the        *)
(* analyzer definitions built from the configuration.  A schema is a dict  *)
(* of field definitions; a field definition is a dict, its "properties" a  *)
(* dict of field definitions and its "items" a field definition.           *)
(***************************************************************************)
\* mutant: a field of a nested object is translated without its own nesting
_convert_field_Shallow(field) ==
    Obj(("type" :> PyGet(field, "type", Str(<<"string">>)))
        @@ (IF PyGet(field, "type", None) = Str(<<"object">>) /\ "properties" \in DOMAIN field.v
            THEN "properties" :>
                    Obj([k \in DOMAIN field.v["properties"].v |->
                            Obj("type" :> PyGet(field.v["properties"].v[k], "type",
                                                Str(<<"string">>)))])
            ELSE <<>>)
        @@ (IF PyGet(field, "type", None) = Str(<<"array">>) /\ "items" \in DOMAIN field.v
            THEN "items" :> Obj("type" :> PyGet(field.v["items"], "type", Str(<<"string">>)))
            ELSE <<>>))

\* mutant: a field with properties or items but no type is taken for an
\* object or an array
RECURSIVE _convert_field_InfersType(_)
_convert_field_InfersType(field) ==
    LET description == PyGet(field, "description", None)
        type == PyGet(field, "type",
                      IF "properties" \in DOMAIN field.v THEN Str(<<"object">>)
                      ELSE IF "items" \in DOMAIN field.v THEN Str(<<"array">>)
                      ELSE Str(<<"string">>))
    IN
    Obj(("type" :> type)
        @@ (IF Truthy(description) THEN "description" :> description ELSE <<>>)
        @@ (IF type = Str(<<"object">>) /\ "properties" \in DOMAIN field.v
               /\ IsDict(field.v["properties"])
            THEN "properties" :>
                    Obj([k \in DOMAIN field.v["properties"].v |->
                            _convert_field_InfersType(field.v["properties"].v[k])])
            ELSE <<>>)
        @@ (IF type = Str(<<"array">>) /\ "items" \in DOMAIN field.v
               /\ IsDict(field.v["items"])
            THEN "items" :> _convert_field_InfersType(field.v["items"])
            ELSE <<>>))

\* analyzer_builder.py lines 88-105
RECURSIVE _convert_field(_)
_convert_field(field) ==
    LET description == PyGet(field, "description", None) IN
    Obj(("type" :> PyGet(field, "type", Str(<<"string">>)))
        @@ (IF Truthy(description) THEN "description" :> description ELSE <<>>)
        @@ (IF PyGet(field, "type", None) = Str(<<"object">>) /\ "properties" \in DOMAIN field.v
            THEN "properties" :>
                    Obj([k \in DOMAIN field.v["properties"].v |->
                            _convert_field(field.v["properties"].v[k])])
            ELSE <<>>)
        @@ (IF PyGet(field, "type", None) = Str(<<"array">>) /\ "items" \in DOMAIN field.v
            THEN "items" :> _convert_field(field.v["items"])
            ELSE <<>>))

\* analyzer_builder.py lines 83-86
_convert_schema(schema) ==
    Obj([name \in DOMAIN schema.v |-> _convert_field(schema.v[name])])

Category(id, display_name, analyzer_id, classification_prompt, extraction_schema) ==
    [id |-> id, display_name |-> display_name, analyzer_id |-> analyzer_id,
     classification_prompt |-> classification_prompt,
     extraction_schema |-> extraction_schema]

PipelineConfig(azure, categories) == [azure |-> azure, categories |-> categories]

\* analyzer_builder.py lines 18-24
build_category_analyzer(category) ==
    Obj([description |-> Str(<<"Extractor for ", category.display_name>>),
         baseAnalyzerId |-> Str(<<"prebuilt-document">>),
         fieldSchema |-> _convert_schema(category.extraction_schema)])

\* mutant: the router refers to a category's analyzer by the category id
build_router_analyzer_ByCategoryId(config) ==
    Obj([description |-> Str(<<"Document classification router">>),
         baseAnalyzerId |-> Str(<<"prebuilt-document">>),
         config |-> Obj([contentCategories |->
                            Arr([i \in DOMAIN config.categories |->
                                   LET cat == config.categories[i] IN
                                   Obj([id |-> Str(<<cat.id>>),
                                        description |-> Str(<<cat.classification_prompt>>),
                                        analyzerId |-> Str(<<cat.id>>)])]),
                         enableSegment |-> [t |-> "bool", v |-> FALSE]])])

\* analyzer_builder.py lines 26-44
build_router_analyzer(config) ==
    Obj([description |-> Str(<<"Document classification router">>),
         baseAnalyzerId |-> Str(<<"prebuilt-document">>),
         config |-> Obj([contentCategories |->
                            Arr([i \in DOMAIN config.categories |->
                                   LET cat == config.categories[i] IN
                                   Obj([id |-> Str(<<cat.id>>),
                                        description |-> Str(<<cat.classification_prompt>>),
                                        analyzerId |-> Str(<<cat.analyzer_id>>)])]),
                         enableSegment |-> [t |-> "bool", v |-> FALSE]])])

(***************************************************************************)
(* ContentUnderstandingClient, administrative operations: one HTTP request *)
(* to /analyzers/{analyzer_id} each, and the reaction to its status code.  *)
(***************************************************************************)
\* mutant: only 200 counts as success of the PUT
create_analyzer_Only200(code) ==
    IF code # 200
    THEN Raise(ContentUnderstandingError(<<"Failed to create analyzer: ", "text">>))
    ELSE Return(None)

\* content_understanding.py lines 39-41
create_analyzer(code) ==
    IF code \notin {200, 201}
    THEN Raise(ContentUnderstandingError(<<"Failed to create analyzer: ", "text">>))
    ELSE Return(None)

\* content_understanding.py lines 47-51
get_analyzer(code, body) ==
    IF code = 404 THEN Return(None)
    ELSE IF code # 200
    THEN Raise(ContentUnderstandingError(<<"Failed to get analyzer: ", "text">>))
    ELSE Return(body)

\* mutant: deleting an analyzer that does not exist is an error
delete_analyzer_Raises404(code) ==
    IF code \notin {200, 204}
    THEN Raise(ContentUnderstandingError(<<"Failed to delete analyzer: ", "text">>))
    ELSE Return(None)

\* content_understanding.py lines 57-59
delete_analyzer(code) ==
    IF code \notin {200, 204, 404}
    THEN Raise(ContentUnderstandingError(<<"Failed to delete analyzer: ", "text">>))
    ELSE Return(None)

\* The provider.  PUT /analyzers/{id} stores the body under the id and
\* answers 201 (created) or 200 (replaced), or refuses with another code and
\* stores nothing.
Defined(store, analyzer_id) == \E a \in store : a.id = analyzer_id
PutCodes(store, analyzer_id) ==
    {IF Defined(store, analyzer_id) THEN 200 ELSE 201, 204, 400, 500}
Put(store, analyzer_id, body, code) ==
    IF code \in {200, 201}
    THEN {a \in store : a.id # analyzer_id} \cup {[id |-> analyzer_id, body |-> body]}
    ELSE store
\* GET /analyzers/{id} answers 200 with the definition, 404, or an error
GetAnswers(store, analyzer_id) ==
    {[code |-> 200, body |-> a.body] : a \in {b \in store : b.id = analyzer_id}}
    \cup (IF Defined(store, analyzer_id) THEN {} ELSE {[code |-> 404, body |-> None]})
    \cup {[code |-> c, body |-> None] : c \in {201, 500}}
\* DELETE /analyzers/{id} removes the definition and answers 200 or 204,
\* answers 404 when there is none, or refuses with another code
DeleteCodes(store, analyzer_id) ==
    (IF Defined(store, analyzer_id) THEN {200, 204} ELSE {404}) \cup {202, 500}
Delete(store, analyzer_id, code) ==
    IF code \in {200, 204} THEN {a \in store : a.id # analyzer_id} ELSE store

(***************************************************************************)
(* The administration of analyzers: AnalyzerBuilder.setup_all, and direct  *)
(* calls of create_analyzer, get_analyzer and delete_analyzer.             *)
(***************************************************************************)
Schema1 == Obj([a |-> Obj([type |-> Str(<<"string">>), description |-> Str(<<"d">>)])])
Schema2 == Obj([items |-> Obj([type |-> Str(<<"array">>),
                               items |-> Obj([type |-> Str(<<"object">>),
                                              properties |-> Obj([a |-> EmptyDict])])])])
Cat1 == Category("invoice", "Invoice", "a1", "an invoice", Schema1)
Cat2 == Category("receipt", "Receipt", "a2", "a receipt", Schema2)
Categories == {Cat1, Cat2}

\* the category lists of a configuration: any order, repetitions included
RECURSIVE CategoryLists(_)
CategoryLists(n) ==
    IF n = 0 THEN {<<>>}
    ELSE CategoryLists(n - 1)
         \cup {Append(l, c) : l \in {m \in CategoryLists(n - 1) : Len(m) = n - 1},
                              c \in Categories}

Configs ==
    {PipelineConfig([router_analyzer_id |-> router_analyzer_id], categories) :
        categories \in CategoryLists(MaxCategories)}

\* the analyzer ids and bodies of direct administrative calls
AnalyzerIds == {"a1", router_analyzer_id}
Bodies == {build_category_analyzer(Cat1), Obj([description |-> Str(<<"v2">>)])}

\* analyzer_builder.py line 46: entry
setup_all(config) ==
    /\ setup.pc = "idle"
    /\ setup' = [pc |-> "categories", config |-> config, i |-> 1, puts |-> <<>>,
                 err |-> NoError]
    /\ UNCHANGED <<analyzers, admin>>

\* mutant: a refused PUT removes what the run has upserted
SetupPut_RollsBack(kind, analyzer_id, body, next_pc) ==
    \E code \in PutCodes(analyzers, analyzer_id) :
        LET o == create_analyzer(code)
            put == [kind |-> kind, analyzer_id |-> analyzer_id, body |-> body, code |-> code]
        IN
        IF o.kind = "raise"
        THEN /\ analyzers' = {a \in analyzers :
                                \A k \in DOMAIN setup.puts : setup.puts[k].analyzer_id # a.id}
             /\ setup' = [setup EXCEPT !.pc = "raised", !.puts = Append(@, put),
                                       !.err = [kind |-> o.err.kind, msg |-> o.err.msg,
                                                at |-> "create_analyzer"]]
        ELSE /\ analyzers' = Put(analyzers, analyzer_id, body, code)
             /\ setup' = [setup EXCEPT !.pc = next_pc, !.puts = Append(@, put),
                                       !.i = IF kind = "category" THEN @ + 1 ELSE @]

\* the PUT of create_analyzer(analyzer_id, body) issued by setup_all
SetupPut(kind, analyzer_id, body, next_pc) ==
    \E code \in PutCodes(analyzers, analyzer_id) :
        LET o == create_analyzer(code)
            put == [kind |-> kind, analyzer_id |-> analyzer_id, body |-> body, code |-> code]
        IN
        /\ analyzers' = Put(analyzers, analyzer_id, body, code)
        /\ IF o.kind = "raise"
           THEN setup' = [setup EXCEPT !.pc = "raised", !.puts = Append(@, put),
                                       !.err = [kind |-> o.err.kind, msg |-> o.err.msg,
                                                at |-> "create_analyzer"]]
           ELSE setup' = [setup EXCEPT !.pc = next_pc, !.puts = Append(@, put),
                                       !.i = IF kind = "category" THEN @ + 1 ELSE @]

\* analyzer_builder.py lines 49-52: one turn of the loop over config.categories
setup_all_category ==
    /\ setup.pc = "categories"
    /\ setup.i <= Len(setup.config.categories)
    /\ LET category == setup.config.categories[setup.i] IN
       SetupPut("category", category.analyzer_id, build_category_analyzer(category),
                "categories")
    /\ UNCHANGED admin

\* mutant: the router is set up while categories remain
setup_all_router_First ==
    /\ setup.pc = "categories"
    /\ SetupPut("router", setup.config.azure.router_analyzer_id,
                build_router_analyzer(setup.config), "returned")
    /\ UNCHANGED admin

\* analyzer_builder.py lines 55-57: after the loop
setup_all_router ==
    /\ setup.pc = "categories"
    /\ setup.i > Len(setup.config.categories)
    /\ SetupPut("router", setup.config.azure.router_analyzer_id,
                build_router_analyzer(setup.config), "returned")
    /\ UNCHANGED admin

\* a direct call and its outcome; prev is the call before it
AdminCall(op, analyzer_id, body, code, o) ==
    admin' = [op |-> op, analyzer_id |-> analyzer_id, body |-> body, code |-> code,
              outcome |-> o, n |-> admin.n + 1,
              prev |-> [op |-> admin.op,
                        analyzer_id |-> IF admin.op = "none" THEN "" ELSE admin.analyzer_id,
                        returned |-> admin.op # "none" /\ admin.outcome.kind = "return"]]

\* content_understanding.py lines 35-41
create_analyzer_call(analyzer_id, body) ==
    /\ admin.n < MaxAdminCalls
    /\ \E code \in PutCodes(analyzers, analyzer_id) :
         /\ analyzers' = Put(analyzers, analyzer_id, body, code)
         /\ AdminCall("create_analyzer", analyzer_id, body, code, create_analyzer(code))
    /\ UNCHANGED setup

\* content_understanding.py lines 43-51
get_analyzer_call(analyzer_id) ==
    /\ admin.n < MaxAdminCalls
    /\ \E answer \in GetAnswers(analyzers, analyzer_id) :
         AdminCall("get_analyzer", analyzer_id, None, answer.code,
                   get_analyzer(answer.code, answer.body))
    /\ UNCHANGED <<analyzers, setup>>

\* content_understanding.py lines 53-59
delete_analyzer_call(analyzer_id) ==
    /\ admin.n < MaxAdminCalls
    /\ \E code \in DeleteCodes(analyzers, analyzer_id) :
         /\ analyzers' = Delete(analyzers, analyzer_id, code)
         /\ AdminCall("delete_analyzer", analyzer_id, None, code, delete_analyzer(code))
    /\ UNCHANGED setup

NextAdmin ==
    /\ \/ \E config \in Configs : setup_all(config)
       \/ setup_all_category
       \/ setup_all_router
       \/ \E analyzer_id \in AnalyzerIds, body \in Bodies :
             create_analyzer_call(analyzer_id, body)
       \/ \E analyzer_id \in AnalyzerIds : get_analyzer_call(analyzer_id)
       \/ \E analyzer_id \in AnalyzerIds : delete_analyzer_call(analyzer_id)
    /\ UNCHANGED <<analysis_vars, service_vars, call_vars>>

SpecAdmin == Init /\ [][NextAdmin]_vars

(***************************************************************************)
(* AnalyzerBuilder.setup_all on any configuration _parse_config produces,  *)
(* the ones that repeat an analyzer id or name the router's id included.   *)
(***************************************************************************)
\* a category that shares its analyzer with Cat1
Cat3 == Category("memo", "Memo", "a1", "a memo", Schema2)
\* a category whose analyzer id is the router's
Cat4 == Category("letter", "Letter", router_analyzer_id, "a letter", Schema1)
AnyCategories == Categories \cup {Cat3, Cat4}

RECURSIVE AnyCategoryLists(_)
AnyCategoryLists(n) ==
    IF n = 0 THEN {<<>>}
    ELSE AnyCategoryLists(n - 1)
         \cup {Append(l, c) : l \in {m \in AnyCategoryLists(n - 1) : Len(m) = n - 1},
                              c \in AnyCategories}

AnyConfigs ==
    {PipelineConfig([router_analyzer_id |-> router_analyzer_id], categories) :
        categories \in AnyCategoryLists(MaxCategories)}

NextSetup ==
    /\ \/ \E config \in AnyConfigs : setup_all(config)
       \/ setup_all_category
       \/ setup_all_router
    /\ UNCHANGED <<analysis_vars, service_vars, call_vars>>

SpecSetup == Init /\ [][NextSetup]_vars

(***************************************************************************)
(* Calls of the pure functions: _parse_cu_response and _flatten_fields of  *)
(* DocumentService and _convert_schema of AnalyzerBuilder, each applied    *)
(* once to an argument.                                                    *)
(***************************************************************************)
\* the lists of at most two elements of S
UpTo2(S) == {<<>>} \cup {<<x>> : x \in S} \cup {<<x, y>> : x \in S, y \in S}

\* entries of "contents": with a category (complete, without id, without
\* confidence), with an empty or null category, without the key
ContentEntries ==
    {Obj([category |-> Obj([id |-> Str(<<"x">>), confidence |-> Num(90)])]),
     Obj([category |-> Obj([id |-> Str(<<"y">>), confidence |-> Num(99)])]),
     Obj([category |-> Obj([confidence |-> Num(50)])]),
     Obj([category |-> Obj([id |-> Str(<<"y">>)])]),
     Obj([category |-> EmptyDict]),
     Obj([category |-> None]),
     Obj([kind |-> Str(<<"document">>)])}

\* responses of the router analyzer: contents absent, null, or a list of
\* entries; fields absent or present
Responses ==
    LET contents == {Arr(l) : l \in UpTo2(ContentEntries)} \cup {None}
        fields == Obj([a |-> Obj([value |-> Num(1)])])
    IN  {Obj([contents |-> c]) : c \in contents}
        \cup {Obj([contents |-> c, fields |-> fields]) : c \in contents}
        \cup {EmptyDict, Obj([fields |-> fields])}

\* nodes of a field result tree
Scalars == {Num(1), Str(<<"s">>), None}
FieldLeaves == Scalars \cup {Arr(<<>>), Arr(<<Num(1), Num(2)>>)}
\* the maps built on the nodes of S (with elements of E in their lists)
FieldNodes(S, E) ==
    {Obj([value |-> s]) : s \in S}
    \cup {Obj([value |-> s, values |-> Arr(<<Num(2)>>)]) : s \in S}
    \cup {Obj([value |-> s, a |-> Obj([value |-> Num(2)])]) : s \in S}
    \cup {Obj([values |-> Arr(l)]) : l \in UpTo2(E)}
    \cup {Obj([values |-> Arr(<<e>>), b |-> Num(2)]) : e \in E}
    \cup {Obj([a |-> s]) : s \in S}
    \cup {Obj([a |-> s, b |-> Obj([value |-> Num(2)])]) : s \in S}
    \cup {EmptyDict}
FieldLevel1 == FieldNodes(FieldLeaves, Scalars \cup {Obj([a |-> Obj([value |-> Num(1)])])})
FieldLevel2 ==
    FieldNodes({Obj([a |-> Obj([value |-> Num(1)])]),
                Obj([a |-> Obj([values |-> Arr(<<Num(1)>>)])]),
                Obj([values |-> Arr(<<Num(1)>>)]),
                Obj([a |-> Num(1)])},
               {Obj([a |-> Obj([values |-> Arr(<<Obj([b |-> Obj([value |-> Num(1)])])>>)])]),
                Obj([a |-> Obj([b |-> Obj([value |-> Num(1)])])]),
                Str(<<"s">>)})
\* the field results: every node under one name, and pairs of names
FieldResults ==
    {Obj([a |-> n]) : n \in FieldLeaves \cup FieldLevel1 \cup FieldLevel2}
    \cup {Obj([a |-> n, items |-> m]) :
            n \in {Num(1), Obj([value |-> Num(1)])},
            m \in {Obj([values |-> Arr(<<Obj([a |-> Obj([value |-> Num(1)])])>>)]),
                   Obj([b |-> Obj([value |-> None])])}}
    \cup {EmptyDict, R2.v["fields"]}

\* FieldSchema trees: leaves with and without type and description,
\* objects with properties, arrays with items
SchemaLeaves ==
    {EmptyDict,
     Obj([description |-> Str(<<"d">>)]),
     Obj([type |-> Str(<<"string">>)]),
     Obj([type |-> Str(<<"number">>), description |-> Str(<<"d">>)]),
     Obj([type |-> Str(<<"boolean">>), description |-> Str(<<>>)])}
ObjectSchema(properties) == Obj([type |-> Str(<<"object">>), properties |-> Obj(properties)])
ArraySchema(items) == Obj([type |-> Str(<<"array">>), items |-> items])
SchemaNodes(S) ==
    {ObjectSchema([a |-> s]) : s \in S}
    \cup {ObjectSchema([a |-> s, b |-> t]) : s \in S, t \in S}
    \cup {Obj([type |-> Str(<<"object">>), description |-> Str(<<"d">>),
              properties |-> Obj([b |-> s])]) : s \in S}
    \cup {ArraySchema(s) : s \in S}
    \cup {ObjectSchema(<<>>)}
SchemaLevel1 == SchemaNodes(SchemaLeaves)
SchemaLevel2 ==
    SchemaNodes({EmptyDict, ObjectSchema([a |-> EmptyDict]),
                 ArraySchema(Obj([type |-> Str(<<"number">>)])),
                 ObjectSchema([a |-> EmptyDict, b |-> Obj([type |-> Str(<<"string">>)])])})
SchemaLevel3 ==
    SchemaNodes({ArraySchema(ObjectSchema([a |-> EmptyDict])),
                 ObjectSchema([b |-> ArraySchema(EmptyDict)])})
Schemas ==
    {Obj([a |-> n]) : n \in SchemaLeaves \cup SchemaLevel1 \cup SchemaLevel2 \cup SchemaLevel3}
    \cup {Obj([name |-> Obj([description |-> Str(<<"d">>)]), items |-> n]) : n \in SchemaLevel1}
    \cup {EmptyDict, Schema1, Schema2}

\* field definitions that lack the type marker, or whose type does not go
\* with their children, alone and inside well-formed ones
IrregularFields ==
    {Obj([properties |-> Obj([a |-> s])]) : s \in SchemaLeaves}
    \cup {Obj([items |-> s]) : s \in SchemaLeaves}
    \cup {Obj([description |-> Str(<<"d">>), properties |-> Obj([a |-> EmptyDict]),
               items |-> EmptyDict]),
          Obj([properties |-> None]),
          Obj([items |-> Str(<<"string">>)]),
          Obj([properties |-> Obj([a |-> Obj([items |-> EmptyDict])])])}
    \cup
    {Obj([type |-> Str(<<"string">>), properties |-> Obj([a |-> EmptyDict])]),
     Obj([type |-> Str(<<"array">>), properties |-> Obj([a |-> EmptyDict])]),
     Obj([type |-> Str(<<"object">>), items |-> EmptyDict]),
     Obj([type |-> Str(<<"object">>)]),
     Obj([type |-> Str(<<"array">>)])}
Fields ==
    SchemaLeaves \cup SchemaLevel1 \cup IrregularFields
    \cup SchemaNodes(IrregularFields)

\* records to be stored: the category id, reviewer and comment null, empty
\* or not, the fields flat or nested, the confidence null, zero or not
StoredFields ==
    {EmptyDict,
     Obj([a |-> Num(1)]),
     Obj([a |-> Str(<<"s">>), b |-> None]),
     Obj([items |-> Arr(<<Obj([a |-> Num(1)]), Obj([a |-> Str(<<>>)])>>)])}
OptionalTexts == {None, Str(<<>>), Str(<<"x">>)}
AnalysisResults ==
    {AnalysisResult("d1", category_id, extracted_fields, confidence,
                    [t |-> "datetime", v |-> 1]) :
        category_id \in OptionalTexts, extracted_fields \in StoredFields,
        confidence \in {None, Num(0), Num(90)}}
FeedbackRecords ==
    {FeedbackRecord("1", "d1", corrected_fields, reviewer, comment,
                    [t |-> "datetime", v |-> 1]) :
        corrected_fields \in StoredFields, reviewer \in OptionalTexts,
        comment \in OptionalTexts}

NotCalled == [fn |-> "none"]

InitCalls ==
    /\ pc = [p \in Procs |-> "idle"]
    /\ document_id = [p \in Procs |-> "d1"]
    /\ blob_url = [p \in Procs |-> <<>>]
    /\ sas_url = [p \in Procs |-> None]
    /\ submitted = [p \in Procs |-> None]
    /\ operation_url = [p \in Procs |-> None]
    /\ calls = [p \in Procs |-> <<>>]
    /\ answers = [p \in Procs |-> <<>>]
    /\ raw_result = [p \in Procs |-> None]
    /\ result = [p \in Procs |-> None]
    /\ err = [p \in Procs |-> NoError]
    /\ table = {}
    /\ saves = <<>>
    /\ clock = 0
    /\ started = 0
    /\ blobs = {}
    /\ feedback_table = {}
    /\ issued = <<>>
    /\ reply = NoCall
    /\ analyzers = {}
    /\ setup = [pc |-> "idle"]
    /\ admin = NoCall
    /\ arg \in Responses \cup FieldResults \cup Schemas \cup Fields
               \cup AnalysisResults \cup FeedbackRecords
    /\ out = NotCalled

\* document_service.py line 71: category_id, fields, confidence = ...
_parse_cu_response_call ==
    /\ out = NotCalled
    /\ arg \in Responses
    /\ out' = [fn |-> "_parse_cu_response", ret |-> _parse_cu_response(arg)]
    /\ UNCHANGED arg

\* document_service.py line 153: fields = self._flatten_fields(field_results)
_flatten_fields_call ==
    /\ out = NotCalled
    /\ arg \in FieldResults
    /\ out' = [fn |-> "_flatten_fields", ret |-> Return(_flatten_fields(arg))]
    /\ UNCHANGED arg

\* analyzer_builder.py line 23: self._convert_schema(category.extraction_schema)
_convert_schema_call ==
    /\ out = NotCalled
    /\ arg \in Schemas
    /\ out' = [fn |-> "_convert_schema", ret |-> Return(_convert_schema(arg))]
    /\ UNCHANGED arg

\* mutant: the default type is written into the field that lacks one
_convert_field_call_SetsDefault ==
    /\ out = NotCalled
    /\ arg \in Fields
    /\ out' = [fn |-> "_convert_field", ret |-> Return(_convert_field(arg))]
    /\ arg' = Obj(("type" :> PyGet(arg, "type", Str(<<"string">>))) @@ arg.v)

\* analyzer_builder.py lines 88-105, called on one field definition: the
\* function builds its result in the new dict converted and assigns to no
\* key of field
_convert_field_call ==
    /\ out = NotCalled
    /\ arg \in Fields
    /\ out' = [fn |-> "_convert_field", ret |-> Return(_convert_field(arg))]
    /\ UNCHANGED arg

\* table_storage.py lines 70-74 and 63-68: DocumentRepository.save(result)
\* on an empty table, then DocumentRepository.get(result.document_id)
DocumentRepository_save_get_call ==
    /\ out = NotCalled
    /\ arg \in AnalysisResults
    /\ out' = [fn |-> "DocumentRepository.get", ret |-> get(save({}, arg), arg.document_id)]
    /\ UNCHANGED arg

\* table_storage.py lines 140-144 and 133-138: FeedbackRepository.save(feedback)
\* on an empty table, then FeedbackRepository.get_by_document
FeedbackRepository_save_get_call ==
    /\ out = NotCalled
    /\ arg \in FeedbackRecords
    /\ out' = [fn |-> "FeedbackRepository.get_by_document",
               ret |-> Return(get_by_document(FeedbackRepository_save({}, arg),
                                              arg.document_id))]
    /\ UNCHANGED arg

NextCalls ==
    /\ \/ _parse_cu_response_call
       \/ _flatten_fields_call
       \/ _convert_schema_call
       \/ _convert_field_call
       \/ DocumentRepository_save_get_call
       \/ FeedbackRepository_save_get_call
    /\ UNCHANGED <<analysis_vars, service_vars, admin_vars>>

SpecCalls == InitCalls /\ [][NextCalls]_vars

(***************************************************************************)
(* Observations on one invocation.                                         *)
(***************************************************************************)
CallsOf(p, op) == SelectSeq(calls[p], LAMBDA c : c.op = op)

\* ContentUnderstandingClient.analyze has returned a value to analyze_document
GatewayReturned(p) ==
    \/ pc[p] \in {"parse", "save", "returned"}
    \/ pc[p] = "raised" /\ err[p].at \in {"_parse_cu_response", "save"}

\* ContentUnderstandingClient.analyze has raised
GatewayRaised(p) == pc[p] = "raised" /\ err[p].at = "analyze"

\* the submit POST has been answered with HTTP status in codes
SubmitAnswered(p, codes) == submitted[p] # None /\ submitted[p].code \in codes

\* the status of a poll response, lower-cased ("" when the body has none)
StatusOf(response) ==
    IF "status" \in DOMAIN response.body.v THEN Lower(response.body.v["status"].v) ELSE <<>>

\* poll response number i of p answered 200 with a status in the set sts
Answered(p, i, sts) ==
    /\ i \in DOMAIN answers[p]
    /\ answers[p][i].code = 200
    /\ StatusOf(answers[p][i]) \in sts

(***************************************************************************)
(* C1: when the submit POST answers 200, analyze returns that response's   *)
(* JSON body unchanged, and the invocation issues no poll GET and no wait. *)
(***************************************************************************)
C1_InlineSubmitReturnsBody ==
    \A p \in Procs :
        SubmitAnswered(p, {200}) =>
            /\ GatewayReturned(p)
            /\ raw_result[p] = submitted[p].body
            /\ CallsOf(p, "GET") = <<>>
            /\ CallsOf(p, "sleep") = <<>>
            /\ answers[p] = <<>>

\* an invocation whose submit answered 200 with R1 has returned
C1_Witness ==
    \E p \in Procs :
        /\ SubmitAnswered(p, {200})
        /\ submitted[p].body = R1
        /\ pc[p] = "returned"
        /\ Len(CallsOf(p, "POST")) = 1

(***************************************************************************)
(* C2: after a 202 submit that carries an operation handle, when the polls *)
(* answer running, running, succeeded{result: R}, analyze returns R after  *)
(* exactly three GETs (two pending polls, then the one that sees           *)
(* succeeded), issues no GET after it, and every GET of an invocation      *)
(* targets the handle its submit returned.                                 *)
(***************************************************************************)
HandleOf(p) == PyGet(submitted[p].headers, OperationLocation, None)

C2_RunningRunningSucceeded ==
    \A p \in Procs :
        /\ \A i \in DOMAIN calls[p] :
              calls[p][i].op = "GET" =>
                  /\ SubmitAnswered(p, {202})
                  /\ calls[p][i].url = HandleOf(p)
                  /\ Truthy(HandleOf(p))
        /\ ( /\ SubmitAnswered(p, {202})
             /\ Len(answers[p]) >= 3
             /\ Answered(p, 1, {running})
             /\ Answered(p, 2, {running})
             /\ Answered(p, 3, {succeeded})
             /\ "result" \in DOMAIN answers[p][3].body.v )
           => /\ GatewayReturned(p)
              /\ raw_result[p] = answers[p][3].body.v["result"]
              /\ Len(answers[p]) = 3
              /\ Len(CallsOf(p, "GET")) = 3

\* running, running, succeeded{result: R2} has been answered and R2 returned
C2_Witness ==
    \E p \in Procs :
        /\ Answered(p, 1, {running}) /\ Answered(p, 2, {running})
        /\ Answered(p, 3, {succeeded})
        /\ raw_result[p] = R2
        /\ pc[p] = "returned"
        /\ CallsOf(p, "GET") = [i \in 1..3 |-> [op |-> "GET", url |-> Handle(p)]]

(***************************************************************************)
(* C3: the first poll whose status is failed ends the invocation: analyze  *)
(* raises an error whose message carries the provider's error.message (or  *)
(* the placeholder "Unknown error" when the body has none), no further     *)
(* poll is issued and no value is returned.                                *)
(***************************************************************************)
\* the sequence m occurs inside msg
Carries(msg, m) ==
    \E k \in 1..Len(msg) : k + Len(m) - 1 <= Len(msg) /\ SubSeq(msg, k, k + Len(m) - 1) = m

\* the message the provider supplied in a failed body
ProvidedMessage(body) ==
    IF "error" \in DOMAIN body.v /\ "message" \in DOMAIN body.v["error"].v
    THEN body.v["error"].v["message"].v
    ELSE <<"Unknown error">>

C3_FailedPollRaises ==
    \A p \in Procs : \A i \in DOMAIN answers[p] :
        Answered(p, i, {failed}) =>
            /\ i = Len(answers[p])
            /\ Len(CallsOf(p, "GET")) = i
            /\ GatewayRaised(p)
            /\ err[p].kind = "ContentUnderstandingError"
            /\ Carries(err[p].msg, ProvidedMessage(answers[p][i].body))
            /\ raw_result[p] = None
            /\ result[p] = None

\* a poll answered failed with the message "m" after a pending poll, and
\* the invocation raised with it
C3_Witness ==
    \E p \in Procs :
        /\ Len(answers[p]) = 2
        /\ Answered(p, 2, {failed})
        /\ ProvidedMessage(answers[p][2].body) = <<"m">>
        /\ pc[p] = "raised"
        /\ err[p].msg = <<"Analysis failed: ", "m">>

\* a failed body without error message raised with the placeholder
C3_WitnessPlaceholder ==
    \E p \in Procs :
        /\ Answered(p, 1, {failed})
        /\ "error" \notin DOMAIN answers[p][1].body.v
        /\ err[p].msg = <<"Analysis failed: ", "Unknown error">>

(***************************************************************************)
(* C4: protocol errors are fatal and never retried: a submit answer other  *)
(* than 200/202 raises with zero polls; a 202 answer without an            *)
(* Operation-Location raises with zero polls; a poll GET that does not     *)
(* answer 200 raises and no further poll follows.  An invocation of        *)
(* analyze issues exactly one POST, and it precedes every GET.             *)
(***************************************************************************)
\* ContentUnderstandingClient.analyze has been entered and has made its POST
GatewayPosted(p) == submitted[p] # None

C4_ProtocolErrorsFatal ==
    \A p \in Procs :
        /\ (GatewayPosted(p) /\ submitted[p].code \notin {200, 202}) =>
              /\ GatewayRaised(p)
              /\ answers[p] = <<>> /\ CallsOf(p, "GET") = <<>>
        /\ (SubmitAnswered(p, {202}) /\ ~Truthy(HandleOf(p))) =>
              /\ GatewayRaised(p)
              /\ answers[p] = <<>> /\ CallsOf(p, "GET") = <<>>
        /\ \A i \in DOMAIN answers[p] :
              answers[p][i].code # 200 =>
                  /\ i = Len(answers[p])
                  /\ Len(CallsOf(p, "GET")) = i
                  /\ GatewayRaised(p)
        /\ Len(CallsOf(p, "POST")) = (IF GatewayPosted(p) THEN 1 ELSE 0)
        /\ (GatewayReturned(p) \/ GatewayRaised(p)) => Len(CallsOf(p, "POST")) = 1
        /\ \A i \in DOMAIN calls[p] :
              calls[p][i].op = "GET" => \E j \in 1..(i - 1) : calls[p][j].op = "POST"

\* a poll answered 202 after a pending poll and the invocation raised
C4_Witness ==
    \E p \in Procs :
        /\ Len(answers[p]) = 2
        /\ answers[p][2].code = 202
        /\ pc[p] = "raised"
        /\ Len(CallsOf(p, "GET")) = 2
        /\ Len(CallsOf(p, "POST")) = 1

\* a 202 submit answer without handle raised
C4_WitnessNoHandle ==
    \E p \in Procs :
        /\ SubmitAnswered(p, {202}) /\ HandleOf(p) = None
        /\ pc[p] = "raised" /\ err[p].msg = <<"No operation location in response">>

(***************************************************************************)
(* C5: the poll status is compared case-insensitively: whatever its case,  *)
(* succeeded returns, failed raises and running / notStarted keep polling; *)
(* any other status (a missing or an empty one included) raises on that    *)
(* poll and no poll follows it.                                            *)
(***************************************************************************)
Known == {running, notstarted, succeeded, failed}

C5_StatusClassification ==
    \A p \in Procs : \A i \in DOMAIN answers[p] :
        answers[p][i].code = 200 =>
            LET st == StatusOf(answers[p][i]) IN
            /\ st \notin Known =>
                  /\ i = Len(answers[p])
                  /\ Len(CallsOf(p, "GET")) = i
                  /\ GatewayRaised(p)
                  /\ err[p].msg = <<"Unknown status: ">> \o st
            /\ st = succeeded => i = Len(answers[p]) /\ GatewayReturned(p)
            /\ st = failed => i = Len(answers[p]) /\ GatewayRaised(p)
            /\ st \in {running, notstarted} =>
                  \/ i < Len(answers[p])
                  \/ pc[p] \in {"sleep", "poll"}

\* a mixed-case NotStarted kept the loop going, and the status "canceled"
\* then raised
C5_Witness ==
    \E p \in Procs :
        /\ Len(answers[p]) = 2
        /\ answers[p][1].body.v["status"].v # notstarted
        /\ Answered(p, 1, {notstarted})
        /\ Answered(p, 2, {<<"c","a","n","c","e","l","e","d">>})
        /\ pc[p] = "raised"

\* a body without status raised
C5_WitnessMissing ==
    \E p \in Procs :
        /\ Len(answers[p]) = 1
        /\ answers[p][1].code = 200 /\ "status" \notin DOMAIN answers[p][1].body.v
        /\ pc[p] = "raised" /\ err[p].msg = <<"Unknown status: ">>

(***************************************************************************)
(* C6: polling has no attempt cap.  An invocation that polls is in the     *)
(* polling loop exactly as long as every answer so far was running or      *)
(* notStarted; after n such answers and one other answer it has issued     *)
(* n + 1 GETs and ended with the outcome of that last answer (returned on  *)
(* succeeded, raised otherwise), and nothing else ends it: no timeout.     *)
(* Each GET directly follows one sleep of poll_interval seconds.           *)
(***************************************************************************)
Pending(response) == response.code = 200 /\ StatusOf(response) \in {running, notstarted}

AllPending(p, n) == \A i \in 1..n : Pending(answers[p][i])

C6_NoAttemptCap ==
    \A p \in Procs :
        LET n == Len(answers[p]) IN
        /\ Len(CallsOf(p, "GET")) = n
        /\ pc[p] \in {"sleep", "poll"} <=>
              /\ SubmitAnswered(p, {202}) /\ Truthy(HandleOf(p))
              /\ AllPending(p, n)
        /\ n > 0 =>
              /\ AllPending(p, n - 1)
              /\ ~Pending(answers[p][n]) =>
                    /\ GatewayReturned(p) \/ GatewayRaised(p)
                    /\ GatewayReturned(p) <=> Answered(p, n, {succeeded})
                    /\ GatewayRaised(p) => err[p].msg[1] \in
                          {"Analysis failed: ", "Unknown status: ",
                           "Failed to get operation status: "}
        /\ \A i \in DOMAIN calls[p] :
              /\ calls[p][i].op = "GET" =>
                    i > 1 /\ calls[p][i - 1] = [op |-> "sleep", seconds |-> poll_interval]
              /\ calls[p][i].op = "sleep" =>
                    /\ calls[p][i].seconds = poll_interval
                    /\ i < Len(calls[p]) => calls[p][i + 1].op = "GET"
                    /\ i = Len(calls[p]) => pc[p] = "poll"

\* MaxPolls pending answers of both kinds, then a terminal one: MaxPolls + 1
\* GETs and as many sleeps
C6_Witness ==
    \E p \in Procs :
        /\ Len(answers[p]) = MaxPolls + 1
        /\ AllPending(p, MaxPolls)
        /\ Answered(p, 1, {notstarted})
        /\ Answered(p, MaxPolls, {running})
        /\ Answered(p, MaxPolls + 1, {succeeded})
        /\ GatewayReturned(p)
        /\ Len(CallsOf(p, "sleep")) = MaxPolls + 1

\* still polling after MaxPolls pending answers
C6_WitnessStillPolling ==
    \E p \in Procs : Len(answers[p]) = MaxPolls /\ AllPending(p, MaxPolls) /\ pc[p] = "sleep"

(***************************************************************************)
(* C7: analyze_document never persists a partial result.  save is called   *)
(* at most once, only after the gateway returned and the response was      *)
(* parsed, with the complete result; every stored record is a saved        *)
(* complete result.  When get_sas_url, the gateway or the parsing raises,  *)
(* the error propagates, save is not called, the table is left as it was   *)
(* and the gateway is not called again.  Only a save step changes the      *)
(* table.                                                                  *)
(***************************************************************************)
RaisedBeforeSave(p) ==
    pc[p] = "raised" /\ err[p].at \in {"get_sas_url", "analyze", "_parse_cu_response"}

C7_State ==
    /\ \A p \in Procs :
          /\ Len(CallsOf(p, "save")) <= 1
          /\ CallsOf(p, "save") # <<>> =>
                LET o == _parse_cu_response(raw_result[p]) IN
                /\ GatewayReturned(p)
                /\ o.kind = "return"
                /\ result[p] = AnalysisResult(document_id[p], o.value[1], o.value[2],
                                              o.value[3], result[p].analyzed_at)
                /\ CallsOf(p, "save")[1].result = result[p]
          /\ RaisedBeforeSave(p) =>
                /\ err[p].kind # "none"
                /\ CallsOf(p, "save") = <<>>
                /\ Len(CallsOf(p, "POST")) <= 1
                /\ \A i \in DOMAIN saves : saves[i].by = p => saves[i].result # result[p]
    /\ \A e \in table : \E i \in DOMAIN saves : e = _to_entity(saves[i].result)

C7_Step ==
    /\ \A p \in Procs : (pc[p] # "raised" /\ RaisedBeforeSave(p)') => table' = table
    /\ table' # table =>
          \E p \in Procs : pc[p] = "save" /\ pc'[p] = "returned" /\ saves' # saves

C7_NoPartialResult == []C7_State /\ [][C7_Step]_vars

\* the analysis of a document that has a stored record raised while parsing
\* the response, and the record is still the one saved before
C7_Witness ==
    \E p \in Procs :
        /\ pc[p] = "raised" /\ err[p].at = "_parse_cu_response"
        /\ raw_result[p] = RBad
        /\ Len(saves) = 1
        /\ saves[1].result.document_id = document_id[p]
        /\ table = {_to_entity(saves[1].result)}

\* the gateway raised, and nothing was saved
C7_WitnessGateway ==
    \E p \in Procs : GatewayRaised(p) /\ Len(answers[p]) = 1 /\ table = {} /\ saves = <<>>

(***************************************************************************)
(* C8: result persistence is a last-write-wins upsert keyed on             *)
(* document_id: the table holds at most one record per document id, none   *)
(* for an id never saved, and the record of an id is the one written by    *)
(* the most recent save for that id, whatever was saved for other ids.     *)
(***************************************************************************)
Entities(d) == {e \in table : e.RowKey = d}

\* the saves for document d that took effect, in order
SavesOf(d) == SelectSeq(saves, LAMBDA s : s.result.document_id = d)

\* entity e is the stored form of the AnalysisResult r
Stores(e, r) ==
    /\ e.PartitionKey = "documents"
    /\ e.RowKey = r.document_id
    /\ e.category_id = (IF r.category_id = None THEN Str(<<>>) ELSE r.category_id)
    /\ e.extracted_fields = Str(JsonDumps(r.extracted_fields))
    /\ e.confidence = r.confidence
    /\ e.analyzed_at = isoformat(r.analyzed_at)

LastWriteWins(d) ==
    LET h == SavesOf(d) IN
    /\ Cardinality(Entities(d)) <= 1
    /\ h = <<>> => Entities(d) = {}
    /\ h # <<>> => \E e \in Entities(d) : Stores(e, h[Len(h)].result)

C8_LastWriteWins ==
    /\ \A d \in DocIds : LastWriteWins(d)
    /\ \A e \in table : e.RowKey \in DocIds

\* d1 was saved twice with different extracted_fields: one record for d1,
\* that of the second save
C8_Witness ==
    LET h == SavesOf("d1") IN
    /\ Len(h) = 2
    /\ h[1].result.extracted_fields # h[2].result.extracted_fields
    /\ \E e \in table : Stores(e, h[2].result)
    /\ ~ \E e \in table : Stores(e, h[1].result)
    /\ Cardinality(Entities("d1")) = 1

(***************************************************************************)
(* C9: two concurrent invocations for the same document id are not         *)
(* serialized; once both have returned, the table holds exactly one record *)
(* for the id, the result of the invocation whose save came last.          *)
(***************************************************************************)
C9_SameIdRace ==
    \A p, q \in Procs :
        (p # q /\ pc[p] = "returned" /\ pc[q] = "returned"
              /\ document_id[p] = document_id[q]) =>
            LET d == document_id[p]
                h == SavesOf(d)
                last == h[Len(h)].by
            IN
            /\ last \in {p, q}
            /\ h[Len(h)].result = result[last]
            /\ Cardinality(Entities(d)) = 1
            /\ \A e \in Entities(d) : Stores(e, result[last])

\* both callers analysed d1 with different outcomes; p1 built its result
\* first (older analyzed_at) and saved last: its record is the stored one
C9_Witness ==
    /\ pc["p1"] = "returned" /\ pc["p2"] = "returned"
    /\ document_id["p1"] = "d1" /\ document_id["p2"] = "d1"
    /\ result["p1"].extracted_fields # result["p2"].extracted_fields
    /\ result["p1"].analyzed_at.v < result["p2"].analyzed_at.v
    /\ Len(saves) = 2 /\ saves[2].by = "p1"
    /\ \E e \in table : Stores(e, result["p1"])

\* both callers are waiting on their operation for d1 at the same time
C9_WitnessBothPolling ==
    /\ pc["p1"] = "sleep" /\ pc["p2"] = "sleep"
    /\ document_id["p1"] = "d1" /\ document_id["p2"] = "d1"

(***************************************************************************)
(* C10: concurrent invocations for different document ids are independent. *)
(* A step of one invocation changes neither the other caller's invocation  *)
(* nor the record of any other document id, and the sleep changes nothing  *)
(* but the sleeper's own position.  The result an invocation builds, and   *)
(* the record stored for its id once it has saved last for that id, are    *)
(* those of a run alone: determined by the provider's answer to this       *)
(* invocation and the time of its stamp.                                   *)
(***************************************************************************)
\* the payload the provider handed to p's invocation
ProviderPayload(p) ==
    IF SubmitAnswered(p, {200}) THEN submitted[p].body
    ELSE LET last == answers[p][Len(answers[p])].body IN PyGet(last, "result", last)

\* what p's invocation builds when it runs alone and stamps at time t
SoloResult(p, t) ==
    LET o == _parse_cu_response(ProviderPayload(p)) IN
    AnalysisResult(document_id[p], o.value[1], o.value[2], o.value[3], t)

LocalsOf(p) ==
    <<pc[p], document_id[p], blob_url[p], sas_url[p], submitted[p], operation_url[p],
      calls[p], answers[p], raw_result[p], result[p], err[p]>>

C10_State ==
    \A p \in Procs :
        /\ result[p] # None => result[p] = SoloResult(p, result[p].analyzed_at)
        /\ ( /\ pc[p] = "returned"
             /\ LET h == SavesOf(document_id[p]) IN h[Len(h)].by = p )
           => /\ Cardinality(Entities(document_id[p])) = 1
              /\ \A e \in Entities(document_id[p]) :
                    Stores(e, SoloResult(p, result[p].analyzed_at))

C10_Step ==
    \A p \in Procs :
        LocalsOf(p)' # LocalsOf(p) =>
            /\ \A q \in Procs \ {p} : LocalsOf(q)' = LocalsOf(q)
            /\ \A d \in DocIds \ {document_id[p]} : Entities(d)' = Entities(d)
            /\ clock' = clock
            /\ pc[p] = "sleep" => (table' = table /\ saves' = saves)

C10_DifferentIdsIndependent == []C10_State /\ [][C10_Step]_vars

\* p1 analysed d1 and p2 analysed d2 at the same time (p1 built its result
\* first and saved last); each record is that of its own invocation
C10_Witness ==
    /\ pc["p1"] = "returned" /\ pc["p2"] = "returned"
    /\ document_id["p1"] = "d1" /\ document_id["p2"] = "d2"
    /\ Len(answers["p1"]) = 2 /\ Len(answers["p2"]) = 2
    /\ result["p1"].analyzed_at.v < result["p2"].analyzed_at.v
    /\ Len(saves) = 2 /\ saves[2].by = "p1"
    /\ result["p1"].extracted_fields # result["p2"].extracted_fields
    /\ Cardinality(table) = 2
    /\ \E e \in table : Stores(e, SoloResult("p1", result["p1"].analyzed_at))
    /\ \E e \in table : Stores(e, SoloResult("p2", result["p2"].analyzed_at))

(***************************************************************************)
(* C11: setup_all upserts every category analyzer, in configuration order, *)
(* before the router analyzer, which is the last upsert.  At every moment  *)
(* the PUTs of a run are a prefix of: one PUT per category, with the       *)
(* category's analyzer_id and definition, in the order of the              *)
(* configuration, then one PUT of the router.  The router is PUT only      *)
(* after every category's PUT succeeded; the run returns exactly when all  *)
(* these PUTs were made and succeeded, and a PUT that is refused ends it.  *)
(***************************************************************************)
\* the upserts a complete run of setup_all makes for a configuration
SetupPlan(config) ==
    [k \in 1..Len(config.categories) |->
        [kind |-> "category", analyzer_id |-> config.categories[k].analyzer_id,
         body |-> build_category_analyzer(config.categories[k])]]
    \o <<[kind |-> "router", analyzer_id |-> config.azure.router_analyzer_id,
          body |-> build_router_analyzer(config)]>>

Upserted(put) == put.code \in {200, 201}

C11_CategoriesBeforeRouter ==
    setup.pc # "idle" =>
        LET plan == SetupPlan(setup.config)
            puts == setup.puts
        IN
        /\ Len(puts) <= Len(plan)
        /\ \A k \in DOMAIN puts :
              /\ puts[k].kind = plan[k].kind
              /\ puts[k].analyzer_id = plan[k].analyzer_id
              /\ puts[k].body = plan[k].body
              /\ k < Len(puts) => Upserted(puts[k])
        /\ \A k \in DOMAIN puts :
              puts[k].kind = "router" =>
                 /\ k = Len(puts) /\ k = Len(setup.config.categories) + 1
                 /\ \A j \in 1..(k - 1) : puts[j].kind = "category" /\ Upserted(puts[j])
        /\ setup.pc = "returned" <=>
              Len(puts) = Len(plan) /\ \A k \in DOMAIN puts : Upserted(puts[k])
        /\ setup.pc = "raised" <=> (puts # <<>> /\ ~Upserted(puts[Len(puts)]))
        /\ setup.pc = "categories" => setup.i = Len(puts) + 1

\* a run for two categories returned: a2, a1, then the router, each once
C11_Witness ==
    /\ setup.pc = "returned"
    /\ setup.config.categories = <<Cat2, Cat1>>
    /\ [k \in DOMAIN setup.puts |-> setup.puts[k].analyzer_id] = <<"a2", "a1", router_analyzer_id>>
    /\ \A k \in DOMAIN setup.puts : Upserted(setup.puts[k])
    /\ \A id \in {"a1", "a2", router_analyzer_id} : Defined(analyzers, id)

\* a run whose second category was refused: the router was not upserted
C11_WitnessRefused ==
    /\ setup.pc = "raised"
    /\ Len(setup.config.categories) = 2
    /\ Len(setup.puts) = 2
    /\ setup.err.kind = "ContentUnderstandingError"

(***************************************************************************)
(* C12: upload_document generates a fresh document id on every call,       *)
(* whatever its arguments.  The ids returned by the uploads of a run are   *)
(* pairwise distinct: an upload never returns an id that an earlier call   *)
(* obtained, also when its filename, bytes and content type are those of   *)
(* an earlier upload; the blob is written under <id>/<filename>.           *)
(***************************************************************************)
Returned(op) == reply.op = op /\ reply.outcome.kind = "return"

C12_Step ==
    Returned("upload_document")' /\ reply' # reply =>
        LET id == reply'.outcome.value[1] IN
        /\ id \notin Issued
        /\ \A b \in blobs : b.name[1] # id
        /\ issued' = Append(issued, id)
        /\ \E b \in blobs' : b.name = <<id>> \o reply'.args[1]

C12_FreshDocumentIds ==
    /\ [](\A i, j \in DOMAIN issued : issued[i] = issued[j] => i = j)
    /\ [][C12_Step]_vars

\* two uploads with identical arguments returned: two ids, two blobs
C12_Witness ==
    /\ Returned("upload_document")
    /\ reply.n = 2
    /\ Len(issued) = 2 /\ issued[1] # issued[2]
    /\ reply.outcome.value[1] = issued[2]
    /\ Cardinality(blobs) = 2
    /\ \A b \in blobs : b.name[2] = "f.pdf" /\ b.data = "x"

(***************************************************************************)
(* C13: a successful analyze_document(document_id, blob_url) has called    *)
(* the gateway once, for the configured router analyzer and never for a    *)
(* category analyzer, with the URL get_sas_url gave; it has called save    *)
(* once and returns the very result it saved.  That result carries the     *)
(* document_id argument, and the category_id, extracted_fields and         *)
(* confidence parsed from what the gateway returned.                       *)
(***************************************************************************)
C13_AnalyzeOnSuccess ==
    \A p \in Procs :
        pc[p] = "returned" =>
            LET posts == CallsOf(p, "POST")
                saved == CallsOf(p, "save")
                payload == ProviderPayload(p)
            IN
            /\ Len(posts) = 1
            /\ posts[1].analyzer_id = router_analyzer_id
            /\ posts[1].analyzer_id \notin {c.analyzer_id : c \in Categories}
            /\ posts[1].json.url = sas_url[p]
            /\ Len(saved) = 1
            /\ saved[1].result = result[p]
            /\ \E i \in DOMAIN saves : saves[i] = [by |-> p, result |-> result[p]]
            /\ result[p].document_id = document_id[p]
            /\ raw_result[p] = payload
            /\ payload = R1 =>
                  /\ result[p].category_id = Str(<<"x">>)
                  /\ result[p].confidence = Num(90)
                  /\ result[p].extracted_fields = Obj([a |-> Num(1)])
            /\ payload = R2 =>
                  /\ result[p].category_id = None
                  /\ result[p].confidence = None
                  /\ result[p].extracted_fields = Obj([items |-> Arr(<<Obj([a |-> Num(1)])>>)])
            /\ payload \notin {R1, R2} =>
                  /\ result[p].category_id = None
                  /\ result[p].confidence = None
                  /\ result[p].extracted_fields = EmptyDict

\* d2 was analysed through a polled operation that gave R1, and the result
\* returned is the record of d2
C13_Witness ==
    /\ pc["p1"] = "returned"
    /\ document_id["p1"] = "d2"
    /\ Len(answers["p1"]) = 2
    /\ ProviderPayload("p1") = R1
    /\ result["p1"].category_id = Str(<<"x">>)
    /\ \A e \in Entities("d2") : Stores(e, result["p1"])
    /\ Entities("d2") # {}

\* the provider succeeded without a payload: the poll body is the result
C13_WitnessEmpty ==
    /\ pc["p1"] = "returned"
    /\ ProviderPayload("p1") \notin {R1, R2}
    /\ result["p1"].extracted_fields = EmptyDict

(***************************************************************************)
(* C14: get_result is a pure repository read.  A call changes no store.    *)
(* When the table answers, the call returns: None when the table has no    *)
(* record for the id, else the AnalysisResult of the stored record (its    *)
(* document_id is the id, it encodes to the stored entity, and it is what  *)
(* was last saved for the id, an empty category_id read back as None).     *)
(* The route answers 404 'Result not found' for None, 200 with the record  *)
(* otherwise, and 500 only when the read raised.                           *)
(***************************************************************************)
C14_Step ==
    reply' # reply /\ reply'.op = "get_result" =>
        LET d == reply'.args[1]
            o == reply'.outcome
            http == reply'.http
            found == Entities(d)
        IN
        /\ UNCHANGED <<table, saves, feedback_table, blobs, issued, analysis_vars>>
        /\ reply'.read <=> o.kind = "return"
        /\ o.kind = "raise" => http.status_code = 500
        /\ o.kind = "return" /\ found = {} =>
              /\ o.value = None
              /\ http = [status_code |-> 404, error |-> <<"Result not found">>]
        /\ o.kind = "return" /\ found # {} =>
              LET last == SavesOf(d)[Len(SavesOf(d))].result IN
              /\ o.value # None
              /\ o.value.document_id = d
              /\ found = {_to_entity(o.value)}
              /\ o.value.extracted_fields = last.extracted_fields
              /\ o.value.confidence = last.confidence
              /\ o.value.analyzed_at = last.analyzed_at
              /\ o.value.category_id = IF Truthy(last.category_id) THEN last.category_id ELSE None
              /\ http.status_code = 200
              /\ http.document_id = d
              /\ http.extracted_fields = last.extracted_fields

C14_GetResultPureRead == [][C14_Step]_vars

\* d1 has a record and d2 has none: get_result("d2") returned None, reported
\* as 404
C14_Witness ==
    /\ reply.op = "get_result"
    /\ reply.args = <<"d2">>
    /\ Entities("d1") # {} /\ Entities("d2") = {}
    /\ reply.outcome = Return(None)
    /\ reply.http.status_code = 404

\* get_result("d1") returned the record of d1, reported as 200
C14_WitnessFound ==
    /\ reply.op = "get_result"
    /\ reply.args = <<"d1">>
    /\ reply.outcome.kind = "return"
    /\ reply.outcome.value # None
    /\ reply.outcome.value.category_id = Str(<<"x">>)
    /\ reply.outcome.value.extracted_fields = Obj([a |-> Num(1)])
    /\ reply.http.status_code = 200

\* the read failed: reported as 500
C14_WitnessFailed ==
    reply.op = "get_result" /\ reply.outcome.kind = "raise" /\ reply.http.status_code = 500

(***************************************************************************)
(* C15: feedback is append-only, with no foreign key.  submit_feedback     *)
(* never looks at the results table: it raises only when the upsert of     *)
(* the feedback table fails, and otherwise adds exactly one record, under  *)
(* a feedback id no earlier call obtained, for the document_id given,      *)
(* whether or not that document has a result.  No step of any operation    *)
(* removes or changes a feedback record, and only submit_feedback adds     *)
(* one.  Several records may reference one document_id.                    *)
(***************************************************************************)
C15_State ==
    /\ \A e, f \in feedback_table : e.RowKey = f.RowKey => e = f
    /\ \A e \in feedback_table : e.PartitionKey = FEEDBACK_PARTITION_KEY /\ e.RowKey \in Issued

C15_Step ==
    /\ feedback_table \subseteq feedback_table'
    /\ ~(reply' # reply /\ reply'.op = "submit_feedback") => feedback_table' = feedback_table
    /\ reply' # reply /\ reply'.op = "submit_feedback" =>
          LET o == reply'.outcome IN
          /\ UNCHANGED <<table, saves, blobs>>
          /\ o.kind = "raise" =>
                /\ o.err.kind = CollaboratorError.kind
                /\ feedback_table' = feedback_table
          /\ o.kind = "return" =>
                /\ o.value.feedback_id \notin Issued
                /\ o.value.document_id = reply'.args[1]
                /\ o.value.corrected_fields = reply'.args[2]
                /\ feedback_table' \ feedback_table = {FeedbackRepository_to_entity(o.value)}
                /\ Cardinality(feedback_table') = Cardinality(feedback_table) + 1

C15_FeedbackAppendOnly == []C15_State /\ [][C15_Step]_vars

\* two feedback records for d1, which has no result
C15_Witness ==
    /\ Returned("submit_feedback")
    /\ reply.args[1] = "d1"
    /\ Entities("d1") = {}
    /\ Cardinality(feedback_table) = 2
    /\ \A e \in feedback_table : e.document_id = "d1"
    /\ \E e, f \in feedback_table : e.RowKey # f.RowKey

\* feedback for d1 after d1 was analysed
C15_WitnessWithResult ==
    /\ Returned("submit_feedback")
    /\ reply.args[1] = "d1"
    /\ Entities("d1") # {}
    /\ Cardinality(feedback_table) = 1

(***************************************************************************)
(* C16: classification extraction is first-match.  For a response whose    *)
(* contents is a list of entries, category_id and confidence are the id    *)
(* and confidence of the category of the first entry whose category is a   *)
(* non-empty object, whatever the later entries hold; when contents is     *)
(* absent, null or empty, or no entry has a non-empty category, both are   *)
(* null.  contents [{x, 90}, {y, 99}] gives x and 90.                      *)
(***************************************************************************)
HasCategory(entry) == Truthy(PyGet(entry, "category", None))

\* the entries of the response's contents (none when absent or null)
ContentsOf(response) ==
    LET contents == PyGet(response, "contents", None) IN
    IF contents = None THEN <<>> ELSE contents.v

X90 == Obj([category |-> Obj([id |-> Str(<<"x">>), confidence |-> Num(90)])])
Y99 == Obj([category |-> Obj([id |-> Str(<<"y">>), confidence |-> Num(99)])])

C16_FirstMatch ==
    out.fn = "_parse_cu_response" =>
        LET contents == ContentsOf(arg)
            matches == {k \in DOMAIN contents : HasCategory(contents[k])}
        IN
        /\ out.ret.kind = "return"
        /\ matches = {} => out.ret.value[1] = None /\ out.ret.value[3] = None
        /\ \A k \in matches :
              (\A j \in matches : k <= j) =>
                 /\ out.ret.value[1] = PyGet(contents[k].v["category"], "id", None)
                 /\ out.ret.value[3] = PyGet(contents[k].v["category"], "confidence", None)
        /\ contents = <<X90, Y99>> =>
              out.ret.value[1] = Str(<<"x">>) /\ out.ret.value[3] = Num(90)

\* contents [{x, 90}, {y, 99}] was parsed: x, 90
C16_Witness ==
    /\ out.fn = "_parse_cu_response"
    /\ ContentsOf(arg) = <<X90, Y99>>
    /\ out.ret.value[1] = Str(<<"x">>)
    /\ out.ret.value[3] = Num(90)

\* the first entry has an empty category and the second a category
C16_WitnessSkips ==
    /\ out.fn = "_parse_cu_response"
    /\ ContentsOf(arg) = <<Obj([category |-> EmptyDict]), Y99>>
    /\ out.ret.value[1] = Str(<<"y">>)

\* no entry has a category
C16_WitnessNone ==
    /\ out.fn = "_parse_cu_response"
    /\ Len(ContentsOf(arg)) = 2
    /\ \A k \in DOMAIN ContentsOf(arg) : ~HasCategory(ContentsOf(arg)[k])
    /\ out.ret.value[1] = None /\ out.ret.value[3] = None

(***************************************************************************)
(* C17: result normalization follows the priority value, values, nested    *)
(* object, scalar at every named node.  A map with a "value" key gives     *)
(* that value as it is, whatever other keys it has; else a map with a      *)
(* "values" list gives a list of the same length and order, its map        *)
(* elements normalized and its other elements as they are; else a map is   *)
(* normalized as a nested object; a node that is not a map is left as it   *)
(* is.  The output has exactly the names of the input, at every level.     *)
(* {items: {values: [{a: {value: 1}}]}} gives {items: [{a: 1}]}.           *)
(***************************************************************************)
\* o is the normalization of the map d / of the node field
RECURSIVE NormalizedMap(_, _)
RECURSIVE NormalizedNode(_, _)
NormalizedMap(d, o) ==
    /\ IsDict(o)
    /\ DOMAIN o.v = DOMAIN d.v
    /\ \A name \in DOMAIN d.v : NormalizedNode(d.v[name], o.v[name])
NormalizedNode(field, o) ==
    IF ~IsDict(field) THEN o = field
    ELSE IF "value" \in DOMAIN field.v THEN o = field.v["value"]
    ELSE IF "values" \in DOMAIN field.v
    THEN /\ o.t = "arr"
         /\ Len(o.v) = Len(field.v["values"].v)
         /\ \A i \in DOMAIN o.v :
               LET item == field.v["values"].v[i] IN
               IF IsDict(item) THEN NormalizedMap(item, o.v[i]) ELSE o.v[i] = item
    ELSE NormalizedMap(field, o)

C17_NormalizationPriority ==
    out.fn = "_flatten_fields" =>
        /\ out.ret.kind = "return"
        /\ NormalizedMap(arg, out.ret.value)
        /\ arg = Obj([items |-> Obj([values |-> Arr(<<Obj([a |-> Obj([value |-> Num(1)])])>>)])])
              => out.ret.value = Obj([items |-> Arr(<<Obj([a |-> Num(1)])>>)])

\* the example of the claim
C17_Witness ==
    /\ out.fn = "_flatten_fields"
    /\ arg = Obj([items |-> Obj([values |-> Arr(<<Obj([a |-> Obj([value |-> Num(1)])])>>)])])
    /\ out.ret.value = Obj([items |-> Arr(<<Obj([a |-> Num(1)])>>)])

\* a node with both "value" and "values": the value, as it is
C17_WitnessValueFirst ==
    /\ out.fn = "_flatten_fields"
    /\ arg = Obj([a |-> Obj([value |-> Arr(<<Num(1), Num(2)>>), values |-> Arr(<<Num(2)>>)])])
    /\ out.ret.value = Obj([a |-> Arr(<<Num(1), Num(2)>>)])

\* a list that mixes a scalar and a map, two levels down
C17_WitnessNested ==
    /\ out.fn = "_flatten_fields"
    /\ arg = Obj([a |-> Obj([values |-> Arr(<<Str(<<"s">>),
                     Obj([a |-> Obj([b |-> Obj([value |-> Num(1)])])])>>)])])
    /\ out.ret.value = Obj([a |-> Arr(<<Str(<<"s">>), Obj([a |-> Obj([b |-> Num(1)])])>>)])

(***************************************************************************)
(* C18: schema translation preserves the structure of a well-formed        *)
(* FieldSchema tree.  The output has the names of the input; every node    *)
(* keeps its type, "string" when the leaf has none; an object node keeps   *)
(* exactly its property names and an array node its items, each            *)
(* translated in the same way; so the number of nodes and the nesting      *)
(* depth are those of the input.                                           *)
(***************************************************************************)
RECURSIVE NodeCount(_)
RECURSIVE SumCounts(_, _)
SumCounts(properties, names) ==
    IF names = {} THEN 0
    ELSE LET k == CHOOSE n \in names : TRUE IN
         NodeCount(properties[k]) + SumCounts(properties, names \ {k})
\* the nodes of a tree: the node, its properties and its items
NodeCount(node) ==
    1 + (IF "properties" \in DOMAIN node.v
         THEN SumCounts(node.v["properties"].v, DOMAIN node.v["properties"].v) ELSE 0)
      + (IF "items" \in DOMAIN node.v THEN NodeCount(node.v["items"]) ELSE 0)

RECURSIVE Depth(_)
RECURSIVE MaxDepth(_, _)
MaxDepth(properties, names) ==
    IF names = {} THEN 0
    ELSE LET k == CHOOSE n \in names : TRUE
             rest == MaxDepth(properties, names \ {k})
         IN IF Depth(properties[k]) > rest THEN Depth(properties[k]) ELSE rest
\* the nesting depth of a tree
Depth(node) ==
    LET below == IF "properties" \in DOMAIN node.v
                 THEN MaxDepth(node.v["properties"].v, DOMAIN node.v["properties"].v) ELSE 0
        items == IF "items" \in DOMAIN node.v THEN Depth(node.v["items"]) ELSE 0
    IN 1 + (IF below > items THEN below ELSE items)

\* the wire field w has the type, the property names and the items of the
\* schema node field, at every level
RECURSIVE SameShape(_, _)
SameShape(field, w) ==
    /\ IsDict(w)
    /\ DOMAIN w.v \subseteq {"type", "description", "properties", "items"}
    /\ w.v["type"] = PyGet(field, "type", Str(<<"string">>))
    /\ "properties" \in DOMAIN field.v <=> "properties" \in DOMAIN w.v
    /\ "properties" \in DOMAIN field.v =>
          /\ DOMAIN w.v["properties"].v = DOMAIN field.v["properties"].v
          /\ \A k \in DOMAIN field.v["properties"].v :
                SameShape(field.v["properties"].v[k], w.v["properties"].v[k])
    /\ "items" \in DOMAIN field.v <=> "items" \in DOMAIN w.v
    /\ "items" \in DOMAIN field.v => SameShape(field.v["items"], w.v["items"])

C18_TranslationPreservesStructure ==
    out.fn = "_convert_schema" =>
        LET o == out.ret.value IN
        /\ IsDict(o) /\ DOMAIN o.v = DOMAIN arg.v
        /\ \A name \in DOMAIN arg.v :
              /\ SameShape(arg.v[name], o.v[name])
              /\ NodeCount(o.v[name]) = NodeCount(arg.v[name])
              /\ Depth(o.v[name]) = Depth(arg.v[name])
        /\ arg = Obj([a |-> Obj([description |-> Str(<<"d">>)])]) =>
              o = Obj([a |-> Obj([type |-> Str(<<"string">>), description |-> Str(<<"d">>)])])

\* an object in an array in an object: 4 nodes, depth 4, translated alike
C18_Witness ==
    /\ out.fn = "_convert_schema"
    /\ arg = Obj([a |-> ObjectSchema([a |-> ArraySchema(ObjectSchema([a |-> EmptyDict]))])])
    /\ NodeCount(out.ret.value.v["a"]) = 4
    /\ Depth(out.ret.value.v["a"]) = 4
    /\ out.ret.value.v["a"].v["properties"].v["a"].v["items"].v["properties"].v["a"]
          = Obj([type |-> Str(<<"string">>)])

\* a leaf without type
C18_WitnessLeaf ==
    /\ out.fn = "_convert_schema"
    /\ arg = Obj([a |-> Obj([description |-> Str(<<"d">>)])])
    /\ out.ret.value.v["a"].v["type"] = Str(<<"string">>)

(***************************************************************************)
(* C19: the administrative operations are idempotent wrappers.             *)
(* create_analyzer returns on 200 and 201 and raises on any other status;  *)
(* after it returned the provider holds exactly one definition for the     *)
(* id, the body sent, so that repeating the call with the same id and      *)
(* body changes nothing.  get_analyzer returns None on 404, the body on    *)
(* 200, raises otherwise, and changes nothing.  delete_analyzer returns    *)
(* on 200, 204 and 404 and raises otherwise; after it returned the id has  *)
(* no definition, and deleting an id that has none returns and changes     *)
(* nothing, so that deleting twice is deleting once.                       *)
(***************************************************************************)
DefinitionsOf(store, analyzer_id) == {a \in store : a.id = analyzer_id}

C19_State ==
    /\ admin.op = "create_analyzer" =>
          /\ admin.outcome.kind = "return" <=> admin.code \in {200, 201}
          /\ admin.outcome.kind = "raise" =>
                /\ admin.outcome.err.kind = "ContentUnderstandingError"
                /\ admin.outcome.err.msg[1] = "Failed to create analyzer: "
    /\ admin.op = "get_analyzer" =>
          /\ admin.code = 404 => admin.outcome = Return(None)
          /\ admin.code = 200 => admin.outcome.kind = "return" /\ admin.outcome.value # None
          /\ admin.code \notin {200, 404} =>
                /\ admin.outcome.kind = "raise"
                /\ admin.outcome.err.msg[1] = "Failed to get analyzer: "
    /\ admin.op = "delete_analyzer" =>
          /\ admin.outcome.kind = "return" <=> admin.code \in {200, 204, 404}
          /\ admin.outcome.kind = "raise" =>
                admin.outcome.err.msg[1] = "Failed to delete analyzer: "

C19_Step ==
    admin' # admin =>
        LET id == admin'.analyzer_id
            returned == admin'.outcome.kind = "return"
            others(store) == {a \in store : a.id # id}
        IN
        /\ others(analyzers') = others(analyzers)
        /\ ~returned => analyzers' = analyzers
        /\ admin'.op = "create_analyzer" /\ returned =>
              /\ DefinitionsOf(analyzers', id) = {[id |-> id, body |-> admin'.body]}
              /\ DefinitionsOf(analyzers, id) = {[id |-> id, body |-> admin'.body]}
                    => analyzers' = analyzers
        /\ admin'.op = "get_analyzer" =>
              /\ analyzers' = analyzers
              /\ returned /\ admin'.outcome.value # None =>
                    DefinitionsOf(analyzers, id) = {[id |-> id, body |-> admin'.outcome.value]}
              /\ admin'.outcome = Return(None) => DefinitionsOf(analyzers, id) = {}
        /\ admin'.op = "delete_analyzer" /\ returned =>
              /\ DefinitionsOf(analyzers', id) = {}
              /\ DefinitionsOf(analyzers, id) = {} => analyzers' = analyzers

C19_AdminIdempotent == []C19_State /\ [][C19_Step]_vars

\* the same analyzer was deleted twice: 404 the second time, and no error
C19_Witness ==
    /\ admin.op = "delete_analyzer"
    /\ admin.prev = [op |-> "delete_analyzer", analyzer_id |-> admin.analyzer_id,
                     returned |-> TRUE]
    /\ admin.code = 404
    /\ admin.outcome = Return(None)
    /\ setup.pc = "returned"
    /\ ~Defined(analyzers, admin.analyzer_id)

\* the same analyzer was created twice: 201, then 200, one definition
C19_WitnessCreateTwice ==
    /\ admin.op = "create_analyzer"
    /\ admin.prev = [op |-> "create_analyzer", analyzer_id |-> admin.analyzer_id,
                     returned |-> TRUE]
    /\ admin.code = 200
    /\ admin.outcome = Return(None)
    /\ Cardinality(DefinitionsOf(analyzers, admin.analyzer_id)) = 1

\* get_analyzer of an analyzer that does not exist: None
C19_WitnessGetMissing ==
    admin.op = "get_analyzer" /\ admin.code = 404 /\ admin.outcome = Return(None)

(***************************************************************************)
(* C20: analyze raises one class of error, ContentUnderstandingError, for  *)
(* a terminal failed status and for every protocol error (an unexpected    *)
(* HTTP status of the submit or of a poll, a missing operation handle, an  *)
(* unrecognized poll status); what tells an analysis failure from a        *)
(* protocol error is the message, which starts with "Analysis failed: "    *)
(* for the former and never for the latter.                                *)
(***************************************************************************)
\* the last poll of p answered 200 with the terminal status failed
FailedPoll(p) == answers[p] # <<>> /\ Answered(p, Len(answers[p]), {failed})

\* the provider's answers for which the gateway reports a protocol error
ProtocolSubmits ==
    {r \in SubmitResponses("p1") :
        \/ r.code \notin {200, 202}
        \/ r.code = 202 /\ ~Truthy(PyGet(r.headers, OperationLocation, None))}

ProtocolPolls ==
    {r \in PollResponses :
        \/ r.code # 200
        \/ /\ IsStr(PyGet(r.body, "status", Str(<<>>)))
           /\ StatusOf(r) \notin {succeeded, failed, running, notstarted}}

\* analyze of p ended with a protocol error
ProtocolError(p) ==
    /\ GatewayRaised(p)
    /\ \/ submitted[p] \in ProtocolSubmits
       \/ answers[p] # <<>> /\ answers[p][Len(answers[p])] \in ProtocolPolls

\* analyze of p ended with the provider's terminal failure
AnalysisFailure(p) ==
    GatewayRaised(p) /\ FailedPoll(p) /\ err[p].kind # AttributeError.kind

AnalysisFailedPrefix == "Analysis failed: "

C20_WitnessUnknownStatus ==
    /\ ProtocolError("p1")
    /\ answers["p1"] # <<>>
    /\ answers["p1"][Len(answers["p1"])].code = 200

\* analyze raised for a 202 with no operation handle
C20_WitnessNoHandle ==
    ProtocolError("p1") /\ SubmitAnswered("p1", {202}) /\ answers["p1"] = <<>>

\* the kinds of the errors analyze raises for protocol errors
ProtocolErrorKinds ==
    {Submitted(r).err.kind : r \in ProtocolSubmits}
    \cup {Polled(r).err.kind : r \in ProtocolPolls}

WellConfigured(config) ==
    LET cats == config.categories IN
    /\ \A i, j \in DOMAIN cats :
          i # j => cats[i].id # cats[j].id /\ cats[i].analyzer_id # cats[j].analyzer_id
    /\ \A i \in DOMAIN cats : cats[i].analyzer_id # config.azure.router_analyzer_id

\* the definitions setup_all is to register for config
Provisioned(config) ==
    {[id |-> config.categories[i].analyzer_id,
      body |-> build_category_analyzer(config.categories[i])] :
        i \in DOMAIN config.categories}
    \cup {[id |-> config.azure.router_analyzer_id, body |-> build_router_analyzer(config)]}

C21_RejectsMisconfiguration ==
    setup.pc # "idle" =>
        /\ ~WellConfigured(setup.config) =>
              /\ setup.puts = <<>>
              /\ setup.pc # "returned"
              /\ setup.pc = "raised" => setup.err.kind = "ConfigurationError"
        /\ setup.pc = "returned" =>
              /\ analyzers = Provisioned(setup.config)
              /\ Cardinality(analyzers) = Len(setup.config.categories) + 1

(***************************************************************************)
(* C22: when a poll answers succeeded, analyze returns the body's result   *)
(* payload if the body has a result key and the whole body, status field   *)
(* included, if it has none; what it returns is never the body of an       *)
(* earlier pending poll nor the body of the 202 submit response.           *)
(***************************************************************************)
\* the last poll of p answered 200 with the status succeeded
SucceededPoll(p) == answers[p] # <<>> /\ Answered(p, Len(answers[p]), {succeeded})

C22_ResultSelection ==
    \A p \in Procs :
        SucceededPoll(p) =>
            LET n == Len(answers[p])
                body == answers[p][n].body
            IN
            /\ GatewayReturned(p)
            /\ "result" \in DOMAIN body.v => raw_result[p] = body.v["result"]
            /\ "result" \notin DOMAIN body.v =>
                  /\ raw_result[p] = body
                  /\ "status" \in DOMAIN raw_result[p].v
            /\ \A i \in 1..(n - 1) : Pending(answers[p][i]) /\ raw_result[p] # answers[p][i].body
            /\ SubmitAnswered(p, {202}) /\ raw_result[p] # submitted[p].body

\* a pending poll, then succeeded with no result key: the whole body came back
C22_Witness ==
    /\ Len(answers["p1"]) = 2
    /\ SucceededPoll("p1")
    /\ "result" \notin DOMAIN answers["p1"][2].body.v
    /\ raw_result["p1"] = answers["p1"][2].body
    /\ pc["p1"] = "returned"

\* a pending poll, then succeeded with a result key: the payload came back
C22_WitnessPayload ==
    /\ Len(answers["p1"]) = 2
    /\ SucceededPoll("p1")
    /\ raw_result["p1"] = R1
    /\ answers["p1"][2].body.v["result"] = R1
    /\ pc["p1"] = "returned"

(***************************************************************************)
(* C23: upload_document makes one storage upload, of the blob named        *)
(* <document_id>/<filename>, and nothing else: the result table, the       *)
(* feedback table and the gateway are left as they were, and the call      *)
(* returns the generated id with the URL the storage client returned.      *)
(***************************************************************************)
C23_Step ==
    (reply'.n = reply.n + 1 /\ reply'.op = "upload_document") =>
        /\ UNCHANGED <<table, feedback_table, saves, calls, submitted, answers,
                       raw_result, result, pc>>
        /\ reply'.outcome.kind = "raise" => blobs' = blobs
        /\ reply'.outcome.kind = "return" =>
              LET id == reply'.outcome.value[1]
                  blob_name == <<id>> \o reply'.args[1]
                  blob == [name |-> blob_name, data |-> reply'.args[2],
                           content_type |-> reply'.args[3]]
              IN
              /\ id = issued'[Len(issued')]
              /\ blobs' = {b \in blobs : b.name # blob_name} \cup {blob}
              /\ blobs' \ blobs = {blob}
              /\ reply'.outcome.value = <<id, BlobUrl(blob_name)>>

C23_UploadOnly == [][C23_Step]_vars

\* a second upload of the same file has returned while a result is stored:
\* two blobs, one result, no feedback
C23_Witness ==
    /\ reply.op = "upload_document"
    /\ reply.outcome.kind = "return"
    /\ Cardinality(blobs) = 2
    /\ Len(saves) = 1
    /\ feedback_table = {}

(***************************************************************************)
(* C24: the feedback path and the analysis path are independent.           *)
(* submit_feedback and get_feedback leave the result table and the gateway *)
(* alone and answer from the feedback table only; analyze_document and     *)
(* get_result leave the feedback table alone and answer from the result    *)
(* table only.  The result table changes only by the save of an analysis,  *)
(* the feedback table only by the save of a submit_feedback.               *)
(***************************************************************************)
\* this step is a call of op by a client of the service
ClientCalls(op) == reply'.n = reply.n + 1 /\ reply'.op = op

C24_Step ==
    /\ ClientCalls("submit_feedback") \/ ClientCalls("get_feedback") =>
          UNCHANGED <<table, saves, calls, submitted, answers, raw_result, result, pc, err>>
    /\ ClientCalls("submit_feedback") /\ reply'.outcome.kind = "return" =>
          /\ reply'.outcome.value =
                FeedbackRecord(issued'[Len(issued')], reply'.args[1], reply'.args[2],
                               reply'.args[3], reply'.args[4], utcnow)
          /\ feedback_table' = FeedbackRepository_save(feedback_table, reply'.outcome.value)
    /\ ClientCalls("get_feedback") =>
          reply'.outcome = Return(get_by_document(feedback_table, reply'.args[1]))
    /\ ClientCalls("get_result") \/ reply' = reply => feedback_table' = feedback_table
    /\ ClientCalls("get_result") /\ reply'.outcome.kind = "return" =>
          reply'.outcome = get(table, reply'.args[1])
    /\ table' # table =>
          /\ reply' = reply
          /\ pc["p1"] = "save" /\ pc'["p1"] = "returned"
          /\ table' = save(table, result["p1"])
    /\ feedback_table' # feedback_table => ClientCalls("submit_feedback")

C24_PathsIndependent == [][C24_Step]_vars

\* feedback for d1 was read back while d1 has no result
C24_Witness ==
    /\ reply.op = "get_feedback"
    /\ reply.args[1] = "d1"
    /\ reply.outcome.value # {}
    /\ Entities("d1") = {}

\* a result for d1 was stored after feedback for d1 had been taken
C24_WitnessAnalysedAfter ==
    /\ feedback_table # {}
    /\ \A e \in feedback_table : e.document_id = "d1"
    /\ Len(SavesOf("d1")) = 1
    /\ pc["p1"] = "returned"

(***************************************************************************)
(* C25: _convert_field returns a result for every field definition, the    *)
(* ones that lack the type marker included: a field with properties or     *)
(* items but no type becomes a field of type "string" (with its            *)
(* description, if any, and nothing else), and the field definition given  *)
(* is the same after the call as before it.                                *)
(***************************************************************************)
\* the translation of a field that has no type
StringDefault(field) ==
    IF Truthy(PyGet(field, "description", None))
    THEN Obj([type |-> Str(<<"string">>), description |-> field.v["description"]])
    ELSE Obj([type |-> Str(<<"string">>)])

RECURSIVE Permissive(_, _)
\* w translates field, every untyped field in it having become a string
Permissive(field, w) ==
    /\ IsDict(w)
    /\ "type" \in DOMAIN w.v
    /\ "type" \notin DOMAIN field.v => w = StringDefault(field)
    /\ "type" \in DOMAIN field.v => w.v["type"] = field.v["type"]
    /\ "properties" \in DOMAIN w.v =>
          \A k \in DOMAIN w.v["properties"].v :
              Permissive(field.v["properties"].v[k], w.v["properties"].v[k])
    /\ "items" \in DOMAIN w.v => Permissive(field.v["items"], w.v["items"])

C25_State ==
    out.fn = "_convert_field" =>
        /\ out.ret.kind = "return"
        /\ Permissive(arg, out.ret.value)

C25_TranslationPermissive == []C25_State /\ [][arg' = arg]_vars

\* a field with properties and no type was translated to a string field
C25_Witness ==
    /\ out.fn = "_convert_field"
    /\ arg = Obj([properties |-> Obj([a |-> Obj([type |-> Str(<<"number">>),
                                                 description |-> Str(<<"d">>)])])])
    /\ out.ret.value = Obj([type |-> Str(<<"string">>)])

\* an untyped field with items inside an array was translated to a string
C25_WitnessNested ==
    /\ out.fn = "_convert_field"
    /\ arg = ArraySchema(Obj([items |-> EmptyDict]))
    /\ out.ret.value = ArraySchema(Obj([type |-> Str(<<"string">>)]))

(***************************************************************************)
(* C26: the router definition lists one classification entry per category  *)
(* of the configuration, in configuration order, each entry being          *)
(* {id: category.id, description: category.classification_prompt,          *)
(* analyzerId: category.analyzer_id}, with segmentation disabled; so every *)
(* analyzerId the router refers to was upserted by the same run of         *)
(* setup_all before the router was.                                        *)
(***************************************************************************)
\* the classification entries of a router definition
ContentCategories(body) == body.v["config"].v["contentCategories"].v

C26_RouterListsCategories ==
    setup.pc # "idle" =>
    \A k \in DOMAIN setup.puts :
        setup.puts[k].kind = "router" =>
            LET body == setup.puts[k].body
                cats == setup.config.categories
                entries == ContentCategories(body)
            IN
            /\ DOMAIN body.v["config"].v = {"contentCategories", "enableSegment"}
            /\ body.v["config"].v["enableSegment"] = [t |-> "bool", v |-> FALSE]
            /\ Len(entries) = Len(cats)
            /\ \A i \in DOMAIN cats :
                  /\ DOMAIN entries[i].v = {"id", "description", "analyzerId"}
                  /\ entries[i].v["id"] = Str(<<cats[i].id>>)
                  /\ entries[i].v["description"] = Str(<<cats[i].classification_prompt>>)
                  /\ entries[i].v["analyzerId"] = Str(<<cats[i].analyzer_id>>)
            /\ \A i \in DOMAIN entries :
                  \E j \in 1..(k - 1) :
                      /\ setup.puts[j].kind = "category"
                      /\ Upserted(setup.puts[j])
                      /\ Str(<<setup.puts[j].analyzer_id>>) = entries[i].v["analyzerId"]

\* the router of the configuration receipt, invoice was upserted
C26_Witness ==
    /\ setup.pc = "returned"
    /\ setup.config.categories = <<Cat2, Cat1>>
    /\ LET entries == ContentCategories(setup.puts[3].body) IN
       /\ entries[1] = Obj([id |-> Str(<<"receipt">>), description |-> Str(<<"a receipt">>),
                            analyzerId |-> Str(<<"a2">>)])
       /\ entries[2].v["analyzerId"] = Str(<<"a1">>)
    /\ Defined(analyzers, "a1") /\ Defined(analyzers, "a2")

(***************************************************************************)
(* C28: setup_all is fail-fast and does not roll back.  When the upsert of *)
(* a category analyzer raises, the error propagates, the run makes no      *)
(* further upsert (no later category, no router) and the analyzers it      *)
(* upserted before stay registered; the router is upserted only after      *)
(* every category upsert of the run succeeded.  For an empty category list *)
(* the router is still upserted, with an empty listing.                    *)
(***************************************************************************)
RECURSIVE Registered(_, _)
\* the provider's store after the first k PUTs of a run that began with none
Registered(puts, k) ==
    IF k = 0 THEN {}
    ELSE Put(Registered(puts, k - 1), puts[k].analyzer_id, puts[k].body, puts[k].code)

C28_State ==
    setup.pc # "idle" =>
        LET puts == setup.puts
            n == Len(puts)
            cats == setup.config.categories
        IN
        /\ analyzers = Registered(puts, n)
        /\ setup.pc = "raised" =>
              /\ ~Upserted(puts[n])
              /\ setup.err.kind = ContentUnderstandingError(<<>>).kind
              /\ setup.err.at = "create_analyzer"
              /\ analyzers = Registered(puts, n - 1)
              /\ \A j \in 1..(n - 1) : Upserted(puts[j]) /\ Defined(analyzers, puts[j].analyzer_id)
              /\ n <= Len(cats) => \A j \in 1..n : puts[j].kind = "category"
        /\ \A k \in 1..n :
              puts[k].kind = "router" =>
                  /\ k = Len(cats) + 1
                  /\ \A j \in 1..Len(cats) : puts[j].kind = "category" /\ Upserted(puts[j])
        /\ cats = <<>> /\ n > 0 =>
              /\ n = 1 /\ puts[1].kind = "router"
              /\ ContentCategories(puts[1].body) = <<>>

\* a run that has raised makes no further step
C28_Step == setup.pc = "raised" => UNCHANGED <<setup, analyzers>>

C28_FailFastNoRollback == []C28_State /\ [][C28_Step]_vars

\* the second of two category upserts was refused: the first stays, the
\* router was never sent
C28_Witness ==
    /\ setup.pc = "raised"
    /\ setup.config.categories = <<Cat1, Cat2>>
    /\ Len(setup.puts) = 2
    /\ Defined(analyzers, "a1")
    /\ ~Defined(analyzers, "a2")
    /\ ~Defined(analyzers, router_analyzer_id)

\* the empty configuration: the router alone, listing nothing
C28_WitnessEmpty ==
    /\ setup.pc = "returned"
    /\ setup.config.categories = <<>>
    /\ analyzers = {[id |-> router_analyzer_id, body |-> build_router_analyzer(setup.config)]}
    /\ ContentCategories(setup.puts[1].body) = <<>>

(***************************************************************************)
(* C27: analyze_document asks get_sas_url for the blob the upload wrote.   *)
(* For a locator https://<account>.blob.core.windows.net/<container>/      *)
(* <document_id>/<filename>, the shape upload returns, the blob name       *)
(* passed to get_sas_url is <document_id>/<filename>, also when filename   *)
(* contains "/".  A locator without a ".blob.core.windows.net" host        *)
(* segment is passed whole as the blob name.                               *)
(***************************************************************************)
\* the host segment of a URL scheme://host/..., "" when there is none
Host(url) == IF Len(url) >= 3 /\ url[2] = "" THEN url[3] ELSE ""

\* the blob name analyze_document passed to get_sas_url
PassedBlobName(p) == calls[p][1].blob_name

\* what the code does with every locator: the name of the blob written for
\* the locators upload returns; the locator itself when none of its segments
\* contains ".blob.core.windows.net"; otherwise what follows the segment
\* after the first one that contains it, host or not
C27_BlobNameOfLocator ==
    \A p \in Procs :
        calls[p] # <<>> =>
            LET url == blob_url[p]
                name == PassedBlobName(p)
            IN
            /\ calls[p][1].op = "get_sas_url"
            /\ sas_url[p] # None => sas_url[p] = SasUrl(name)
            /\ Host(url) \in BlobHosts /\ url[1] = "https:" =>
                  /\ name = SubSeq(url, 5, Len(url))
                  /\ url = SubSeq(url, 1, 4) \o name
            /\ \A b \in blobs : url = BlobUrl(b.name) => name = b.name
            /\ (\A i \in DOMAIN url : url[i] \notin BlobHosts) => name = url
            /\ \A i \in DOMAIN url :
                  (url[i] \in BlobHosts /\ \A j \in 1..(i - 1) : url[j] \notin BlobHosts) =>
                      name = SubSeq(url, i + 2, Len(url))

\* a file dir/f.pdf was uploaded and analysed: the name passed to
\* get_sas_url is that of the blob written
C27_Witness ==
    /\ calls["p1"] # <<>>
    /\ Len(PassedBlobName("p1")) = 3
    /\ SubSeq(PassedBlobName("p1"), 2, 3) = <<"dir", "f.pdf">>
    /\ \E b \in blobs : b.name = PassedBlobName("p1") /\ blob_url["p1"] = BlobUrl(b.name)
    /\ pc["p1"] = "returned"

\* a locator of the storage emulator was passed whole
C27_WitnessFallback ==
    /\ calls["p1"] # <<>>
    /\ Host(blob_url["p1"]) = "127.0.0.1:10000"
    /\ PassedBlobName("p1") = blob_url["p1"]

\* C27, its last sentence: a locator whose host segment does not contain
\* ".blob.core.windows.net" is passed through whole as the blob name
C27_NoBlobHostPassedWhole ==
    \A p \in Procs :
        calls[p] # <<>> /\ Host(blob_url[p]) \notin BlobHosts =>
            PassedBlobName(p) = blob_url[p]

(***************************************************************************)
(* C29: the scan of contents stops at the first entry whose category is a  *)
(* non-empty object, also when that object has no id or no confidence: the *)
(* missing output is null and no later entry is consulted.  Contents       *)
(* [{category: {confidence: 50}}, {category: {id: y}}] gives category_id   *)
(* null and confidence 50.  Entries whose category is missing, null or an  *)
(* empty object are skipped and never stop the scan: leaving them out      *)
(* gives the same outcome.                                                 *)
(***************************************************************************)
NoId50 == Obj([category |-> Obj([confidence |-> Num(50)])])
OnlyIdY == Obj([category |-> Obj([id |-> Str(<<"y">>)])])

\* the response with the entries that have no category left out
WithoutSkipped(response) ==
    Obj([k \in DOMAIN response.v |->
            IF k = "contents" /\ response.v[k] # None
            THEN Arr(SelectSeq(response.v[k].v, HasCategory))
            ELSE response.v[k]])

C29_StopsAtFirstCategory ==
    out.fn = "_parse_cu_response" =>
        LET contents == ContentsOf(arg) IN
        /\ \A k \in DOMAIN contents :
              (HasCategory(contents[k]) /\ \A j \in 1..(k - 1) : ~HasCategory(contents[j])) =>
                  LET category == contents[k].v["category"] IN
                  /\ "id" \notin DOMAIN category.v => out.ret.value[1] = None
                  /\ "id" \in DOMAIN category.v => out.ret.value[1] = category.v["id"]
                  /\ "confidence" \notin DOMAIN category.v => out.ret.value[3] = None
                  /\ "confidence" \in DOMAIN category.v =>
                        out.ret.value[3] = category.v["confidence"]
        /\ contents = <<NoId50, OnlyIdY>> =>
              out.ret.value[1] = None /\ out.ret.value[3] = Num(50)
        /\ out.ret = _parse_cu_response(WithoutSkipped(arg))

\* [{category: {confidence: 50}}, {category: {id: y}}] was parsed: null, 50
C29_Witness ==
    /\ out.fn = "_parse_cu_response"
    /\ ContentsOf(arg) = <<NoId50, OnlyIdY>>
    /\ out.ret.value[1] = None
    /\ out.ret.value[3] = Num(50)

\* an entry without category and one with a null category came first
C29_WitnessSkipped ==
    /\ out.fn = "_parse_cu_response"
    /\ ContentsOf(arg) = <<Obj([category |-> None]), OnlyIdY>>
    /\ out.ret.value[1] = Str(<<"y">>)
    /\ out.ret.value[3] = None

(***************************************************************************)
(* C30: what is stored is read back.  An AnalysisResult R saved and then   *)
(* read with no write in between comes back equal to R in document_id,     *)
(* extracted_fields, confidence and analyzed_at, and in category_id unless *)
(* R.category_id is the empty string, which comes back as null; a          *)
(* FeedbackRecord F comes back equal to F except that an empty-string      *)
(* reviewer or comment comes back as null.                                 *)
(***************************************************************************)
\* an optional text as it is read back: the empty string has become null
ReadBack(text) == IF text = Str(<<>>) THEN None ELSE text

C30_RoundTripButEmpty ==
    /\ out.fn = "DocumentRepository.get" =>
          /\ out.ret.kind = "return"
          /\ out.ret.value = [arg EXCEPT !.category_id = ReadBack(@)]
          /\ out.ret.value = _to_model(_to_entity(arg))
    /\ out.fn = "FeedbackRepository.get_by_document" =>
          /\ out.ret.value = {[arg EXCEPT !.reviewer = ReadBack(@), !.comment = ReadBack(@)]}
          /\ out.ret.value = {FeedbackRepository_to_model(FeedbackRepository_to_entity(arg))}

\* a result with a null category, nested fields and confidence 0 came back
\* as it was
C30_Witness ==
    /\ out.fn = "DocumentRepository.get"
    /\ arg.category_id = None
    /\ arg.confidence = Num(0)
    /\ "items" \in DOMAIN arg.extracted_fields.v
    /\ out.ret.value = arg

\* a result with the empty string for category came back with null
C30_WitnessEmptyCategory ==
    /\ out.fn = "DocumentRepository.get"
    /\ arg.category_id = Str(<<>>)
    /\ out.ret.value.category_id = None

\* a feedback record with a reviewer and no comment came back as it was
C30_WitnessFeedback ==
    /\ out.fn = "FeedbackRepository.get_by_document"
    /\ arg.reviewer = Str(<<"x">>) /\ arg.comment = None
    /\ out.ret.value = {arg}

\* C30 as stated: every record comes back equal to the one stored, the
\* empty-string category_id, reviewer and comment included
C30_RoundTrip ==
    /\ out.fn = "DocumentRepository.get" => out.ret.value = arg
    /\ out.fn = "FeedbackRepository.get_by_document" => out.ret.value = {arg}

====
